---- MODULE Spec2Model ----
(***************************************************************************)
(* Model of the VAE anomaly-scoring module (src/vae.js) and of the parts   *)
(* of the application (src/app.js) that drive it.                          *)
(*                                                                         *)
(* Numbers.  Reconstruction errors are JavaScript doubles >= 0; here they  *)
(* are natural numbers in an abstract unit.  The results of the one        *)
(* floating-point expression whose special values matter, the confidence   *)
(* 1 - reconError/threshold, are modelled by JsNum records: a finite       *)
(* rational n/d, NaN, or +/-Infinity, with the IEEE-754 rules of division, *)
(* Math.max and Math.min.                                                  *)
(*                                                                         *)
(* null is the empty tuple <<>>, a present value v is <<v>>.               *)
(***************************************************************************)
EXTENDS Integers, Sequences, FiniteSets, TLC

----------------------------------------------------------------------------
(* Bounds of the model *)

MaxErr == 3
MaxModel == 2
MaxSmallWindows == 21
NumCallers == 2
MaxBars == 52
MaxWindowSize == 3
MaxTabWindows == 1
MaxBatch == 2
UnitW == 2
UnitF == 2
UnitLatent == 2
MaxScale == 2

(* Program constants *)

BatchSize == 32
YieldEvery == 8
ReliableMin == 200

----------------------------------------------------------------------------
(* Generic helpers *)

Null == <<>>
Some(v) == <<v>>
Val(o) == o[1]

Min(a, b) == IF a <= b THEN a ELSE b
Max(a, b) == IF a >= b THEN a ELSE b

Range(s) == {s[i] : i \in 1..Len(s)}

\* an array given by its cells, as a sequence evaluated once
Arr(f) == f \o <<>>

----------------------------------------------------------------------------
(* JavaScript numbers, as far as score() needs them *)

Fin(n, d) == [k |-> "fin", n |-> n, d |-> d]
NaN == [k |-> "nan", n |-> 0, d |-> 1]
PosInf == [k |-> "inf", n |-> 1, d |-> 1]
NegInf == [k |-> "inf", n |-> -1, d |-> 1]

\* a / b for finite numbers a >= 0, b >= 0  (x/0 is Infinity, 0/0 is NaN)
JsDiv(a, b) ==
    IF b = 0 THEN (IF a = 0 THEN NaN ELSE PosInf) ELSE Fin(a, b)

\* 1 - q
JsOneMinus(q) ==
    CASE q.k = "nan" -> NaN
      [] q.k = "inf" -> (IF q.n > 0 THEN NegInf ELSE PosInf)
      [] OTHER -> Fin(q.d - q.n, q.d)

\* Math.max(0, x): NaN if x is NaN
JsMax0(x) ==
    CASE x.k = "nan" -> NaN
      [] x.k = "inf" -> (IF x.n > 0 THEN PosInf ELSE Fin(0, 1))
      [] OTHER -> (IF x.n < 0 THEN Fin(0, 1) ELSE x)

\* Math.min(1, x): NaN if x is NaN
JsMin1(x) ==
    CASE x.k = "nan" -> NaN
      [] x.k = "inf" -> (IF x.n > 0 THEN Fin(1, 1) ELSE NegInf)
      [] OTHER -> (IF x.n > x.d THEN Fin(1, 1) ELSE x)

\* ToNumber of the stored threshold: null converts to 0
ToNumber(o) == IF o = Null THEN 0 ELSE Val(o)

\* vae.js:510   Math.min(1, Math.max(0, 1 - reconError / _threshold))
Confidence(reconError, thr) ==
    JsMin1(JsMax0(JsOneMinus(JsDiv(reconError, ToNumber(thr)))))

\* a comparison that also flags an error equal to the threshold
IsAnomalyAtLeast(reconError, thr) == reconError >= ToNumber(thr)

\* vae.js:511   reconError > _threshold
IsAnomaly(reconError, thr) == reconError > ToNumber(thr)

----------------------------------------------------------------------------
(* _scaleRow  (vae.js:272-280).  A cell of a row is a JavaScript value: a  *)
(* finite number, NaN (also what undefined converts to) or null, which     *)
(* converts to 0 in arithmetic.  The scaler parameters are integers.       *)

JsNull == [k |-> "null", n |-> 0, d |-> 1]

\* a / b for integers of either sign, the denominator kept positive
JsQuot(a, b) ==
    IF b = 0
    THEN (IF a = 0 THEN NaN ELSE IF a > 0 THEN PosInf ELSE NegInf)
    ELSE IF b < 0 THEN Fin(-a, -b) ELSE Fin(a, b)

\* (v - min) / scale
ScaleQuot(v, min, scale) ==
    CASE v.k = "nan" -> NaN
      [] v.k = "null" -> JsQuot(0 - min, scale)
      [] OTHER -> JsQuot(v.n - min, scale)

\* the cell without the test of line 276
ScaleCellNoZeroTest(v, min, scale) ==
    LET q == ScaleQuot(v, min, scale)
    IN  JsMin1(JsMax0(IF q.k = "nan" THEN Fin(0, 1) ELSE q))

\* lines 276-278 for one cell
ScaleCell(v, min, scale) ==
    IF scale = 0
    THEN Fin(0, 1)
    ELSE LET q == ScaleQuot(v, min, scale)
         IN  JsMin1(JsMax0(IF q.k = "nan" THEN Fin(0, 1) ELSE q))

\* _scaleRow(row) with _scalerParams = params
ScaleRow(row, params) ==
    Arr([i \in 1..Len(row) |-> ScaleCell(row[i], params.min[i], params.scale[i])])

\* _scaleRow storing each scaled cell back into the row it was given
ScaleRowInPlace(row, params) ==
    [scaled |-> ScaleRow(row, params), row |-> ScaleRow(row, params)]

\* a call of _scaleRow: the array returned and the row it was given as it
\* stands afterwards (row.map builds a new array and writes nowhere else)
ScaleRowCall(row, params) ==
    [scaled |-> ScaleRow(row, params), row |-> row]

----------------------------------------------------------------------------
(* Indicators and the feature matrix  (vae.js:48-264).                     *)
(*                                                                         *)
(* Prices and volumes are integers.  Indicator values are fixed-point      *)
(* numbers with FP units to 1; the Wilder averages of the RSI are kept     *)
(* with AvgScale units to 1, fine enough that an average loss that is      *)
(* positive in the source stays positive here over MaxBars bars.  The      *)
(* source's tolerance 1e-10 is below both resolutions and reads "> 0".     *)
(* Arrays are 1-based: index i of the source is index i + 1 here.          *)

FP == 100
AvgScale == 100000

RsiPeriod == 14
EmaFast == 12
EmaSlow == 26
EmaSignal == 9
BbPeriod == 20
BbMult == 2
SmaPeriod == 50
VolPeriod == 20
MomentumLag == 10
NumFeatures == 7
SmaCol == 7
DefaultWindow == 20

\* a / b of two numbers at the same scale, as a fixed-point number
FpDiv(a, b) == (a * FP) \div b

RECURSIVE SumTo(_, _, _)
\* data[lo] + ... + data[hi]
SumTo(data, lo, hi) == IF lo > hi THEN 0 ELSE data[hi] + SumTo(data, lo, hi - 1)

RECURSIVE SqrtIn(_, _, _)
\* the largest r in lo..hi with r * r <= x
SqrtIn(x, lo, hi) ==
    IF lo >= hi THEN lo
    ELSE LET mid == (lo + hi + 1) \div 2
         IN  IF mid * mid <= x THEN SqrtIn(x, mid, hi) ELSE SqrtIn(x, lo, mid - 1)

\* Math.sqrt, rounded down to the fixed-point grid
Sqrt(x) == SqrtIn(x, 0, Min(x, 46340))

\* _ema(data, period): cells of data are Null or Some(v)
RECURSIVE EmaFrom(_, _, _, _, _)
EmaFrom(data, period, i, ema, acc) ==
    IF i > Len(data) THEN acc
    ELSE LET v == data[i]
             next == IF v = Null THEN ema
                     ELSE IF ema = Null THEN v
                     ELSE Some((2 * Val(v) + (period - 1) * Val(ema))
                               \div (period + 1))
         IN  EmaFrom(data, period, i + 1, next, Append(acc, next))

Ema(data, period) == EmaFrom(data, period, 1, Null, <<>>)

\* toRsi with a zero average loss read as a neutral 50
ToRsiZeroLossNeutral(g, l) ==
    IF l <= 0 THEN 50 * FP
    ELSE 100 * FP - (100 * FP * FP) \div (FP + (g * FP) \div l)

\* toRsi(g, l) of _rsiWilder; g and l at AvgScale
ToRsi(g, l) ==
    IF l <= 0 THEN 100 * FP
    ELSE 100 * FP - (100 * FP * FP) \div (FP + (g * FP) \div l)

\* the Wilder averages after the delta into index k (k >= period + 1)
RECURSIVE WilderFrom(_, _, _, _, _, _)
WilderFrom(closes, period, k, g, l, acc) ==
    IF k > Len(closes) THEN acc
    ELSE LET d == (closes[k] - closes[k - 1]) * AvgScale
             g2 == (g * (period - 1) + (IF d > 0 THEN d ELSE 0)) \div period
             l2 == (l * (period - 1) + (IF d < 0 THEN -d ELSE 0)) \div period
         IN  WilderFrom(closes, period, k + 1, g2, l2,
                        Append(acc, Some(ToRsi(g2, l2))))

\* _rsiWilder(closes, period)
RsiWilder(closes, period) ==
    LET n == Len(closes)
    IN  IF n < period + 1 THEN Arr([i \in 1..n |-> Null])
        ELSE LET gain(k) == Max(closes[k + 1] - closes[k], 0) * AvgScale
                 loss(k) == Max(closes[k] - closes[k + 1], 0) * AvgScale
                 g0 == SumTo(Arr([k \in 1..period |-> gain(k)]), 1, period)
                          \div period
                 l0 == SumTo(Arr([k \in 1..period |-> loss(k)]), 1, period)
                          \div period
             IN  WilderFrom(closes, period, period + 2, g0, l0,
                            [i \in 1..period |-> Null]
                                \o <<Some(ToRsi(g0, l0))>>)

\* the sequence of the non-null cells of s, in order
RECURSIVE Compact(_)
Compact(s) ==
    IF s = <<>> THEN <<>>
    ELSE IF Head(s) = Null THEN Compact(Tail(s))
    ELSE <<Head(s)>> \o Compact(Tail(s))

\* findIndex(v => v !== null), 1-based; 0 when there is none
RECURSIVE FirstNonNullFrom(_, _)
FirstNonNullFrom(s, i) ==
    IF i > Len(s) THEN 0
    ELSE IF s[i] # Null THEN i
    ELSE FirstNonNullFrom(s, i + 1)

FirstNonNull(s) == FirstNonNullFrom(s, 1)

\* _computeMacd(closes): closes at FP
ComputeMacd(closes) ==
    LET n == Len(closes)
        data == Arr([i \in 1..n |-> Some(closes[i])])
        ema12 == Ema(data, EmaFast)
        ema26 == Ema(data, EmaSlow)
        macdLine == Arr([i \in 1..n |->
                            IF ema12[i] # Null /\ ema26[i] # Null
                            THEN Some(Val(ema12[i]) - Val(ema26[i])) ELSE Null])
        signalCompact == Ema(Compact(macdLine), EmaSignal)
        first == FirstNonNull(macdLine)
        signalLine == Arr([i \in 1..n |->
                              IF first # 0 /\ i >= first
                                 /\ i - first + 1 <= Len(signalCompact)
                              THEN signalCompact[i - first + 1] ELSE Null])
        histogram == Arr([i \in 1..n |->
                             IF macdLine[i] # Null /\ signalLine[i] # Null
                             THEN Some(Val(macdLine[i]) - Val(signalLine[i]))
                             ELSE Null])
    IN  [macdLine |-> macdLine, signalLine |-> signalLine,
         histogram |-> histogram]

\* a moving average whose first value comes one index early
SmaOneEarly(data, period) ==
    Arr([i \in 1..Len(data) |->
            IF i < period - 1 THEN Null
            ELSE Some(SumTo(data, Max(1, i - period + 1), i) \div period)])

\* _sma(data, period): data at any scale, the result at the same scale
Sma(data, period) ==
    Arr([i \in 1..Len(data) |->
            IF i < period THEN Null
            ELSE Some(SumTo(data, i - period + 1, i) \div period)])

\* _bollingerBands(closes, period, multiplier): closes at FP
BollingerBands(closes, period, multiplier) ==
    LET sma == Sma(closes, period)
        sd(i) == LET mean == Val(sma[i])
                     sq == Arr([j \in 1..period |->
                                   (closes[i - period + j] - mean)
                                   * (closes[i - period + j] - mean)])
                 IN  Sqrt(SumTo(sq, 1, period) \div period)
    IN  [upper |-> Arr([i \in 1..Len(closes) |->
                           IF i < period THEN Null
                           ELSE Some(Val(sma[i]) + multiplier * sd(i))]),
         lower |-> Arr([i \in 1..Len(closes) |->
                           IF i < period THEN Null
                           ELSE Some(Val(sma[i]) - multiplier * sd(i))]),
         middle |-> sma]

\* _computeFeatureMatrix(rawData)
ComputeFeatureMatrix(rawData) ==
    LET n == Len(rawData)
        closes == Arr([i \in 1..n |-> rawData[i].close])
        volumes == Arr([i \in 1..n |-> rawData[i].volume])
        closesFp == Arr([i \in 1..n |-> closes[i] * FP])
        rsi14 == RsiWilder(closes, RsiPeriod)
        macd == ComputeMacd(closesFp)
        bb == BollingerBands(closesFp, BbPeriod, BbMult)
        sma50 == Sma(closesFp, SmaPeriod)
        volSma20 == Sma(Arr([i \in 1..n |-> volumes[i] * FP]), VolPeriod)
        bbPos(i) ==
            IF bb.upper[i] # Null /\ bb.lower[i] # Null
            THEN LET rng == Val(bb.upper[i]) - Val(bb.lower[i])
                 IN  IF rng > 0
                     THEN Some(FpDiv(closesFp[i] - Val(bb.lower[i]), rng))
                     ELSE Some(FP \div 2)
            ELSE Null
        volRatio(i) ==
            IF volSma20[i] # Null /\ Val(volSma20[i]) > 0
            THEN Some(FpDiv(volumes[i] * FP, Val(volSma20[i])))
            ELSE Null
        momentum(i) ==
            IF i - 1 >= MomentumLag /\ closes[i - MomentumLag] > 0
            THEN Some(FpDiv((closes[i] - closes[i - MomentumLag]) * 100,
                            closes[i - MomentumLag]))
            ELSE Null
        smaRatio(i) ==
            IF sma50[i] # Null /\ Val(sma50[i]) > 0
            THEN Some(FpDiv(closesFp[i], Val(sma50[i])))
            ELSE Null
    IN  Arr([i \in 1..n |->
                <<rsi14[i], macd.macdLine[i], macd.histogram[i], bbPos(i),
                  volRatio(i), momentum(i), smaRatio(i)>>])

\* _fillNulls without its SMA_Ratio rule
FillSmaLeadingSkipped(features) == features

\* the SMA_Ratio rule of _fillNulls: leading nulls of column 6 become 1.0
FillSmaLeading(features) ==
    LET col == Arr([i \in 1..Len(features) |-> features[i][SmaCol]])
        first == FirstNonNull(col)
    IN  Arr([i \in 1..Len(features) |->
                IF first = 0 \/ i < first
                THEN [features[i] EXCEPT ![SmaCol] = Some(FP)]
                ELSE features[i]])

\* the forward fill of one column from index i on; last is the last
\* non-null cell seen (Null when none yet)
RECURSIVE ForwardFill(_, _, _, _)
ForwardFill(col, i, last, acc) ==
    IF i > Len(col) THEN acc
    ELSE LET cell == IF col[i] # Null THEN col[i] ELSE last
         IN  ForwardFill(col, i + 1, cell, Append(acc, cell))

\* the backward fill: the cells before the first non-null one take its value
BackwardFill(col) ==
    LET first == FirstNonNull(col)
    IN  Arr([i \in 1..Len(col) |->
                IF first # 0 /\ i < first THEN col[first] ELSE col[i]])

\* the backward fill alone
FillColumnBackwardOnly(col) == BackwardFill(col)

\* forward fill, then backward fill, of one column
FillColumn(col) == BackwardFill(ForwardFill(col, 1, Null, <<>>))

\* _fillNulls(features)
FillNulls(features) ==
    LET n == Len(features)
        start == FillSmaLeading(features)
        cols == Arr([f \in 1..NumFeatures |->
                        FillColumn(Arr([i \in 1..n |-> start[i][f]]))])
    IN  Arr([i \in 1..n |-> Arr([f \in 1..NumFeatures |-> cols[f][i]])])

\* _fillNulls writing into the rows of its argument
FillNullsInPlace(rawFeatures) ==
    [filled |-> FillNulls(rawFeatures), features |-> FillNulls(rawFeatures)]

\* a call of _fillNulls: the matrix returned and the argument as it stands
\* afterwards (line 235 copies every row; all writes go to the copies)
FillNullsCall(rawFeatures) ==
    [filled |-> FillNulls(rawFeatures), features |-> rawFeatures]

\* Array.prototype.slice(from, to) for 0 <= from <= to: rows from..to-1
\* (0-based), cut at the end of the array
Slice(s, from, to) == SubSeq(s, from + 1, Min(to, Len(s)))

\* the loop started one index late: the first window is lost
SlidingWindowsLateStart(filledRows, windowSize) ==
    LET w == IF windowSize = 0 THEN DefaultWindow ELSE windowSize
        ends == w..(Len(filledRows) - 1)
    IN  Arr([k \in 1..Cardinality(ends) |->
                Slice(filledRows, w + (k - 1) - w + 1, w + (k - 1) + 1)])

\* the loop of buildWindows over the filled matrix; windowSize 0 is an
\* omitted argument (windowSize || 20)
SlidingWindows(filledRows, windowSize) ==
    LET w == IF windowSize = 0 THEN DefaultWindow ELSE windowSize
        ends == (w - 1)..(Len(filledRows) - 1)
    IN  Arr([k \in 1..Cardinality(ends) |->
                Slice(filledRows, (w - 1) + (k - 1) - w + 1,
                      (w - 1) + (k - 1) + 1)])

----------------------------------------------------------------------------
(* The model adapter.  A loaded model is a deterministic function from a   *)
(* window to its reduced error (executeAsync followed by                   *)
(* _computeBatchErrors).  Windows are named by their index in the          *)
(* population; the artifact that was loaded is one of Models.              *)

Models == 0..MaxModel
ErrVals == 0..MaxErr

\* model 0 reduces every window to error 0 (z_mean = z_log_var = 0);
\* model 1 gives low errors 1 and 2 with a rare outlier of MaxErr;
\* the others give evenly mixed errors
ModelErr(m, w) ==
    CASE m = 0 -> 0
      [] m = 1 -> (IF w % (2 * BatchSize) = 0 THEN MaxErr ELSE 1 + (w % 2))
      [] OTHER -> (m * w + 1) % (MaxErr + 1)

\* the window populations calibrate is called with (their lengths)
\* every small length, and the lengths next to one batch, to the
\* reliability limit and to the first cooperative yield
WindowCounts ==
    (0..MaxSmallWindows)
    \cup {b + d : b \in {BatchSize, ReliableMin, YieldEvery * BatchSize},
                  d \in {-1, 0, 1}}

\* the windows score is called with
ScoreWindows == 0..MaxErr

Callers == 1..NumCallers

----------------------------------------------------------------------------
(* State *)

VARIABLES
    ready,          \* _ready
    model,          \* _model: Null or Some(artifact)
    scalerParams,   \* _scalerParams: Null or Some(..)
    vaeConfig,      \* _vaeConfig: Null or Some(..)
    artifact,       \* the model file served at ./vae/tfjs_encoder/model.json
    threshold,      \* _threshold: Null or Some(error)
    backend,        \* tf.getBackend()
    loadPc,         \* where the running load() is suspended
    cal,            \* per caller: the calibrate() call in flight
    sc,             \* per caller: the score() call in flight
    ret             \* what the last step returned or threw to a caller

vaeVars == <<ready, model, scalerParams, vaeConfig, artifact, threshold, backend,
             loadPc, cal, sc, ret>>

\* a call in flight also holds the tensors of its current inference: inp is
\* the input tensor, outT the tensors executeAsync resolved with (<<>>
\* while output is undefined); leak says that some tensor of the call was
\* not disposed exactly once when its try statement was left
CalIdle == [pc |-> "idle", n |-> 0, start |-> 0, errors |-> <<>>, out |-> <<>>,
            infer |-> 0, inp |-> "none", outT |-> <<>>, leak |-> FALSE]
ScIdle == [pc |-> "idle", w |-> 0, out |-> 0, infer |-> 0,
           inp |-> "none", outT |-> <<>>, leak |-> FALSE]

\* tensor.dispose()
Dispose(t) ==
    CASE t = "live" -> "disposed"
      [] t = "disposed" -> "twice"
      [] OTHER -> t

\* the three tensors executeAsync resolves with, one per requested node
NumOutputs == 3
FreshOutputs == [i \in 1..NumOutputs |-> "live"]

\* a finally block that disposes the outputs only
FinallyOutputsOnly(inp, outT) ==
    [inp |-> inp, outT |-> [i \in DOMAIN outT |-> Dispose(outT[i])]]

\* the finally block: inputTensor.dispose(); if (output) dispose each
Finally(inp, outT) ==
    [inp |-> Dispose(inp), outT |-> [i \in DOMAIN outT |-> Dispose(outT[i])]]

\* every tensor has been disposed exactly once
Released(t) ==
    /\ t.inp = "disposed"
    /\ \A i \in DOMAIN t.outT : t.outT[i] = "disposed"

\* ret: the operation that ended in the last step, for which caller, with
\* which argument, how it ended, and how many executeAsync calls it had made
NoRet == [op |-> "none", caller |-> 0, arg |-> 0, kind |-> "none", err |-> "",
          val |-> <<>>, infer |-> 0]
Return(op, c, a, v, k) ==
    [op |-> op, caller |-> c, arg |-> a, kind |-> "return", err |-> "",
     val |-> v, infer |-> k]
Throw(op, c, a, e, k) ==
    [op |-> op, caller |-> c, arg |-> a, kind |-> "throw", err |-> e,
     val |-> <<>>, infer |-> k]

VaeInit ==
    /\ ready = FALSE
    /\ model = Null
    /\ scalerParams = Null
    /\ vaeConfig = Null
    /\ artifact \in Models
    /\ threshold = Null
    /\ backend \in {"cpu", "webgl"}
    /\ loadPc = "backend"          \* vae.js:532  VAE.load() runs at page start
    /\ cal = [c \in Callers |-> CalIdle]
    /\ sc = [c \in Callers |-> ScIdle]
    /\ ret = NoRet

----------------------------------------------------------------------------
(* load()  vae.js:368-397 *)

\* a catch block that lets the failure out and leaves _ready as it was
LoadCatchRethrow(stage) ==
    /\ ret' = Throw("load", 0, 0, stage, 0)
    /\ loadPc' = "idle"
    /\ UNCHANGED ready
\* the catch block: the failure is swallowed, load() resolves
LoadCatch(stage) ==
    /\ ready' = FALSE
    /\ ret' = Return("load", 0, 0, [ok |-> FALSE, stage |-> stage], 0)
    /\ loadPc' = "idle"

LoadCall ==
    /\ loadPc = "idle"
    /\ loadPc' = "backend"
    /\ ret' = NoRet
    /\ UNCHANGED <<ready, model, scalerParams, vaeConfig, artifact, threshold, backend,
                   cal, sc>>

\* await tf.setBackend('cpu'); await tf.ready()
LoadBackendDone(ok) ==
    /\ loadPc = "backend"
    /\ IF ok
       THEN /\ backend' = "cpu"
            /\ loadPc' = "model"
            /\ ret' = NoRet
            /\ UNCHANGED ready
       ELSE /\ LoadCatch("backend")
            /\ UNCHANGED backend
    /\ UNCHANGED <<model, scalerParams, vaeConfig, artifact, threshold, cal, sc>>

\* _model = await tf.loadGraphModel(..)
LoadModelDone(ok) ==
    /\ loadPc = "model"
    /\ IF ok
       THEN /\ model' = Some(artifact)
            /\ loadPc' = "fetch"
            /\ ret' = NoRet
            /\ UNCHANGED ready
       ELSE /\ LoadCatch("model")
            /\ UNCHANGED model
    /\ UNCHANGED <<scalerParams, vaeConfig, artifact, threshold, backend, cal, sc>>

\* Promise.all of the two fetches, then the two .ok tests
FetchOutcomes == {"ok", "rejected", "scalerNotFound", "configNotFound"}
LoadFetchDone(res) ==
    /\ loadPc = "fetch"
    /\ IF res = "ok"
       THEN /\ loadPc' = "scalerJson"
            /\ ret' = NoRet
            /\ UNCHANGED ready
       ELSE LoadCatch(res)
    /\ UNCHANGED <<model, scalerParams, vaeConfig, artifact, threshold, backend, cal, sc>>

\* _scalerParams = await scalerRes.json()
LoadScalerJsonDone(ok) ==
    /\ loadPc = "scalerJson"
    /\ IF ok
       THEN /\ scalerParams' = Some(1)
            /\ loadPc' = "configJson"
            /\ ret' = NoRet
            /\ UNCHANGED ready
       ELSE /\ LoadCatch("scalerJson")
            /\ UNCHANGED scalerParams
    /\ UNCHANGED <<model, vaeConfig, artifact, threshold, backend, cal, sc>>

\* _vaeConfig = await configRes.json(); _ready = true
LoadConfigJsonDone(ok) ==
    /\ loadPc = "configJson"
    /\ IF ok
       THEN /\ vaeConfig' = Some(1)
            /\ ready' = TRUE
            /\ loadPc' = "idle"
            /\ ret' = Return("load", 0, 0, [ok |-> TRUE, stage |-> "done"], 0)
       ELSE /\ LoadCatch("configJson")
            /\ UNCHANGED vaeConfig
    /\ UNCHANGED <<model, scalerParams, artifact, threshold, backend, cal, sc>>

----------------------------------------------------------------------------
(* calibrate()  vae.js:426-481 *)

\* [...allErrors].sort((a, b) => a - b): the ascending arrangement
SortAsc(s) ==
    LET le == [v \in Range(s) |-> Cardinality({i \in 1..Len(s) : s[i] <= v})]
    IN  [i \in 1..Len(s) |->
            CHOOSE v \in Range(s) :
                /\ le[v] >= i
                /\ \A u \in Range(s) : u < v => le[u] < i]

\* a nearest-rank percentile (ceiling) in place of the floor rank
P95IdxNearestRank(len) == Min((len * 95 + 99) \div 100, len - 1)

\* Math.min(Math.floor(sorted.length * 0.95), sorted.length - 1)
\* (in doubles floor(len * 0.95) equals floor(95 len / 100) for every len
\* below 200000)
P95Idx(len) == Min((len * 95) \div 100, len - 1)

\* a strict comparison in place of >=
IsReliableStrict(windowCount) == windowCount > ReliableMin

\* windowCount >= 200
IsReliable(windowCount) == windowCount >= ReliableMin

\* the errors of the chunk that starts at window `start`, as the model
\* loaded at the time of the executeAsync call reduces them
ChunkOut(start, n) ==
    [k \in 1..(Min(start + BatchSize, n) - start) |->
        ModelErr(Val(model), start + k - 1)]

\* the guard without its _ready test
NotReadyModelOnly == model = Null

\* the guard of line 427
NotReady == ~ready \/ model = Null

\* after the loop: sort, take the percentile, store it, return
CalFinish(c, n, errors, infer, leak) ==
    LET sorted == SortAsc(errors)
        thr == sorted[P95Idx(Len(sorted)) + 1]
    IN  /\ threshold' = Some(thr)
        /\ cal' = [cal EXCEPT ![c] = [CalIdle EXCEPT !.leak = leak]]
        /\ ret' = Return("calibrate", c, n,
                         [threshold |-> Some(thr),
                          windowCount |-> n,
                          isReliable |-> IsReliable(n),
                          errors |-> errors], infer)

\* the loop head at `start`: the next executeAsync, or the end of the loop
CalLoop(c, n, start, errors, infer, leak) ==
    IF start < n
    THEN /\ cal' = [cal EXCEPT ![c] = [pc |-> "exec", n |-> n, start |-> start,
                                     errors |-> errors,
                                     out |-> ChunkOut(start, n),
                                     infer |-> infer + 1,
                                     inp |-> "live", outT |-> <<>>,
                                     leak |-> leak]]
         /\ ret' = NoRet
         /\ UNCHANGED threshold
    ELSE CalFinish(c, n, errors, infer, leak)

\* the empty population treated like any other: no reset, no early return
CalBodyNoEmptyCase(c, n) ==
    IF n = 0
    THEN /\ cal' = [cal EXCEPT ![c] = CalIdle]
         /\ ret' = Throw("calibrate", c, 0, "EmptyPopulation", 0)
         /\ UNCHANGED threshold
    ELSE CalLoop(c, n, 0, <<>>, 0, FALSE)

\* lines 436-440 and the entry of the loop
CalBody(c, n) ==
    IF n = 0
    THEN /\ threshold' = Null
         /\ cal' = [cal EXCEPT ![c] = CalIdle]
         /\ ret' = Return("calibrate", c, 0,
                          [threshold |-> Null, windowCount |-> 0,
                           isReliable |-> FALSE, errors |-> <<>>], 0)
    ELSE CalLoop(c, n, 0, <<>>, 0, FALSE)

\* the call, up to its first await
CalibrateCall(c, n) ==
    /\ cal[c].pc = "idle"
    /\ IF NotReady
       THEN /\ ret' = Throw("calibrate", c, n, "NotReady", 0)
            /\ UNCHANGED <<threshold, cal>>
       ELSE IF backend # "cpu"
       THEN /\ cal' = [cal EXCEPT ![c] = [CalIdle EXCEPT !.pc = "backend",
                                                       !.n = n]]
            /\ ret' = NoRet
            /\ UNCHANGED threshold
       ELSE CalBody(c, n)
    /\ UNCHANGED <<ready, model, scalerParams, vaeConfig, artifact, backend, loadPc, sc>>

\* await tf.setBackend('cpu'); await tf.ready()   (lines 430-434).  The
\* pipeline is ready, so the cpu backend was initialised by load() and
\* selecting it again succeeds.
CalBackendDone(c) ==
    /\ cal[c].pc = "backend"
    /\ backend' = "cpu"
    /\ CalBody(c, cal[c].n)
    /\ UNCHANGED <<ready, model, scalerParams, vaeConfig, artifact, loadPc, sc>>

\* a failed executeAsync issued again for the same batch
CalExecDoneRetry(c, ok) ==
    /\ cal[c].pc = "exec"
    /\ IF ok
       THEN /\ cal' = [cal EXCEPT ![c].pc = "data", ![c].outT = FreshOutputs]
            /\ ret' = NoRet
       ELSE /\ cal' = [cal EXCEPT ![c].infer = cal[c].infer + 1]
            /\ ret' = NoRet
    /\ UNCHANGED <<ready, model, scalerParams, vaeConfig, artifact, threshold, backend,
                   loadPc, sc>>

\* executeAsync settles; on success _computeBatchErrors starts and awaits
\* the tensor data, on failure the finally block runs and the error leaves
CalExecDone(c, ok) ==
    /\ cal[c].pc = "exec"
    /\ IF ok
       THEN /\ cal' = [cal EXCEPT ![c].pc = "data", ![c].outT = FreshOutputs]
            /\ ret' = NoRet
       ELSE /\ cal' = [cal EXCEPT ![c] =
                        [CalIdle EXCEPT !.leak =
                            cal[c].leak
                            \/ ~Released(Finally(cal[c].inp, cal[c].outT))]]
            /\ ret' = Throw("calibrate", c, cal[c].n, "Inference", cal[c].infer)
    /\ UNCHANGED <<ready, model, scalerParams, vaeConfig, artifact, threshold, backend,
                   loadPc, sc>>

\* a failed reduction that stores a threshold from the errors so far
CalDataDoneKeepsPartial(c, ok) ==
    /\ cal[c].pc = "data"
    /\ IF ~ok
       THEN /\ cal' = [cal EXCEPT ![c] =
                        [CalIdle EXCEPT !.leak =
                            cal[c].leak
                            \/ ~Released(Finally(cal[c].inp, cal[c].outT))]]
            /\ ret' = Throw("calibrate", c, cal[c].n, "Reduction", cal[c].infer)
            /\ threshold' = IF cal[c].errors = <<>>
                            THEN threshold
                            ELSE Some(SortAsc(cal[c].errors)
                                        [P95Idx(Len(cal[c].errors)) + 1])
       ELSE LET errors == cal[c].errors \o cal[c].out
                fin == Finally(cal[c].inp, cal[c].outT)
                leak == cal[c].leak \/ ~Released(fin)
            IN  IF (cal[c].start \div BatchSize) % YieldEvery = YieldEvery - 1
                THEN /\ cal' = [cal EXCEPT ![c].pc = "yield",
                                           ![c].errors = errors,
                                           ![c].out = <<>>,
                                           ![c].inp = fin.inp,
                                           ![c].outT = fin.outT,
                                           ![c].leak = leak]
                     /\ ret' = NoRet
                     /\ UNCHANGED threshold
                ELSE CalLoop(c, cal[c].n, cal[c].start + BatchSize, errors,
                             cal[c].infer, leak)
    /\ UNCHANGED <<ready, model, scalerParams, vaeConfig, artifact, backend, loadPc, sc>>

\* _computeBatchErrors settles; allErrors.push(...batchErrors); then the
\* yield of line 467, or the next batch, or the end
CalDataDone(c, ok) ==
    /\ cal[c].pc = "data"
    /\ IF ~ok
       THEN /\ cal' = [cal EXCEPT ![c] =
                        [CalIdle EXCEPT !.leak =
                            cal[c].leak
                            \/ ~Released(Finally(cal[c].inp, cal[c].outT))]]
            /\ ret' = Throw("calibrate", c, cal[c].n, "Reduction", cal[c].infer)
            /\ UNCHANGED threshold
       ELSE LET errors == cal[c].errors \o cal[c].out
                fin == Finally(cal[c].inp, cal[c].outT)
                leak == cal[c].leak \/ ~Released(fin)
            IN  IF (cal[c].start \div BatchSize) % YieldEvery = YieldEvery - 1
                THEN /\ cal' = [cal EXCEPT ![c].pc = "yield",
                                           ![c].errors = errors,
                                           ![c].out = <<>>,
                                           ![c].inp = fin.inp,
                                           ![c].outT = fin.outT,
                                           ![c].leak = leak]
                     /\ ret' = NoRet
                     /\ UNCHANGED threshold
                ELSE CalLoop(c, cal[c].n, cal[c].start + BatchSize, errors,
                             cal[c].infer, leak)
    /\ UNCHANGED <<ready, model, scalerParams, vaeConfig, artifact, backend, loadPc, sc>>

\* the setTimeout(resolve, 0) of line 468 fires
CalYieldDone(c) ==
    /\ cal[c].pc = "yield"
    /\ CalLoop(c, cal[c].n, cal[c].start + BatchSize, cal[c].errors,
               cal[c].infer, cal[c].leak)
    /\ UNCHANGED <<ready, model, scalerParams, vaeConfig, artifact, backend, loadPc, sc>>

----------------------------------------------------------------------------
(* score()  vae.js:490-519 *)

\* scale, build the tensor, call executeAsync  (lines 500-507)
ScBody(c, w) ==
    /\ sc' = [sc EXCEPT ![c] = [pc |-> "exec", w |-> w,
                                out |-> ModelErr(Val(model), w), infer |-> 1,
                                inp |-> "live", outT |-> <<>>,
                                leak |-> FALSE]]
    /\ ret' = NoRet

\* score() without the test of line 492
ScoreCallNoThresholdTest(c, w) ==
    /\ sc[c].pc = "idle"
    /\ IF NotReady
       THEN /\ ret' = Throw("score", c, w, "NotReady", 0)
            /\ UNCHANGED sc
       ELSE IF backend # "cpu"
       THEN /\ sc' = [sc EXCEPT ![c] = [ScIdle EXCEPT !.pc = "backend", !.w = w]]
            /\ ret' = NoRet
       ELSE ScBody(c, w)
    /\ UNCHANGED <<ready, model, scalerParams, vaeConfig, artifact, threshold,
                   backend, loadPc, cal>>

\* the call, up to its first await
ScoreCall(c, w) ==
    /\ sc[c].pc = "idle"
    /\ IF NotReady
       THEN /\ ret' = Throw("score", c, w, "NotReady", 0)
            /\ UNCHANGED sc
       ELSE IF threshold = Null
       THEN /\ ret' = Throw("score", c, w, "NotCalibrated", 0)
            /\ UNCHANGED sc
       ELSE IF backend # "cpu"
       THEN /\ sc' = [sc EXCEPT ![c] = [ScIdle EXCEPT !.pc = "backend", !.w = w]]
            /\ ret' = NoRet
       ELSE ScBody(c, w)
    /\ UNCHANGED <<ready, model, scalerParams, vaeConfig, artifact, threshold, backend,
                   loadPc, cal>>

\* await tf.setBackend('cpu'); await tf.ready()   (lines 495-498)
ScBackendDone(c) ==
    /\ sc[c].pc = "backend"
    /\ backend' = "cpu"
    /\ ScBody(c, sc[c].w)
    /\ UNCHANGED <<ready, model, scalerParams, vaeConfig, artifact, threshold, loadPc,
                   cal>>

ScExecDone(c, ok) ==
    /\ sc[c].pc = "exec"
    /\ IF ok
       THEN /\ sc' = [sc EXCEPT ![c].pc = "data", ![c].outT = FreshOutputs]
            /\ ret' = NoRet
       ELSE /\ sc' = [sc EXCEPT ![c] =
                        [ScIdle EXCEPT !.leak =
                            ~Released(Finally(sc[c].inp, sc[c].outT))]]
            /\ ret' = Throw("score", c, sc[c].w, "Inference", sc[c].infer)
    /\ UNCHANGED <<ready, model, scalerParams, vaeConfig, artifact, threshold, backend,
                   loadPc, cal>>

\* _computeBatchErrors settles; lines 509-512 read _threshold as it is now
ScDataDone(c, ok) ==
    /\ sc[c].pc = "data"
    /\ sc' = [sc EXCEPT ![c] =
                [ScIdle EXCEPT !.leak = ~Released(Finally(sc[c].inp, sc[c].outT))]]
    /\ IF ok
       THEN ret' = Return("score", c, sc[c].w,
                          [reconError |-> sc[c].out,
                           confidence |-> Confidence(sc[c].out, threshold),
                           isAnomaly |-> IsAnomaly(sc[c].out, threshold),
                           threshold |-> threshold], sc[c].infer)
       ELSE ret' = Throw("score", c, sc[c].w, "Reduction", sc[c].infer)
    /\ UNCHANGED <<ready, model, scalerParams, vaeConfig, artifact, threshold, backend,
                   loadPc, cal>>

\* other code on the page changes the TF.js backend
BackendSwitch ==
    /\ backend = "cpu"
    /\ backend' = "webgl"
    /\ ret' = NoRet
    /\ UNCHANGED <<ready, model, scalerParams, vaeConfig, artifact, threshold, loadPc,
                   cal, sc>>

----------------------------------------------------------------------------
(* buildWindows as a step: the bar sequence and the window size are the    *)
(* inputs, the raw matrix, the filled matrix and the windows the results.  *)

VARIABLES
    rawData,        \* the bars: [close, volume]
    windowSize,     \* the second argument of buildWindows, 0 when omitted
    features,       \* the matrix _computeFeatureMatrix(rawData) returned, as
                    \* it stands when buildWindows returns
    filled,         \* _fillNulls(features)
    windows,        \* the value buildWindows returns
    built,          \* whether buildWindows has run
    inferred,       \* which call has scaled windows: none, calibrate or score
    passed,         \* the windows given to that call, as they stand after it
    scaled          \* the scaled windows that call built

featVars ==
    <<rawData, windowSize, features, filled, windows, built, inferred,
      passed, scaled>>

ClosePatterns == {"flat", "rising", "falling", "zigzag", "zeroStart"}
VolPatterns == {"zero", "flat", "zeroStart", "zeroEnd"}

\* the close of bar i (from 1) of a pattern
CloseAt(p, i) ==
    CASE p = "flat" -> 50
      [] p = "rising" -> 50 + i
      [] p = "falling" -> 120 - i
      [] p = "zigzag" -> 50 + 3 * (i % 2) + (i \div 4)
      [] p = "zeroStart" -> (IF i <= 15 THEN 0 ELSE 50 + i)

\* the volume of bar i (from 1) of a pattern
VolAt(p, i) ==
    CASE p = "zero" -> 0
      [] p = "flat" -> 7
      [] p = "zeroStart" -> (IF i <= 25 THEN 0 ELSE 7 + (i % 3))
      [] p = "zeroEnd" -> (IF i <= 30 THEN 7 + (i % 3) ELSE 0)

Bars(n, cp, vp) ==
    Arr([i \in 1..n |-> [close |-> CloseAt(cp, i), volume |-> VolAt(vp, i)]])

FeatIdle ==
    /\ rawData = <<>>
    /\ windowSize = 0
    /\ features = <<>>
    /\ filled = <<>>
    /\ windows = <<>>
    /\ built = FALSE
    /\ inferred = "none"
    /\ passed = <<>>
    /\ scaled = <<>>

FeatInit ==
    /\ \E n \in 0..MaxBars, cp \in ClosePatterns, vp \in VolPatterns :
          rawData = Bars(n, cp, vp)
    /\ windowSize \in 0..MaxWindowSize
    /\ features = <<>>
    /\ filled = <<>>
    /\ windows = <<>>
    /\ built = FALSE
    /\ inferred = "none"
    /\ passed = <<>>
    /\ scaled = <<>>

\* VAE.buildWindows(rawData, windowSize)
Build ==
    /\ ~built
    /\ built' = TRUE
    /\ LET call == FillNullsCall(ComputeFeatureMatrix(rawData))
       IN  /\ features' = call.features
           /\ filled' = call.filled
    /\ windows' = SlidingWindows(filled', windowSize)
    /\ UNCHANGED <<rawData, windowSize, inferred, passed, scaled>>

\* a feature row as the numbers _scaleRow reads, in units of 1/FP
JsRow(row) ==
    Arr([j \in 1..Len(row) |->
            IF row[j] = Null THEN JsNull ELSE Fin(Val(row[j]), 1)])

JsWindows(ws) ==
    Arr([k \in 1..Len(ws) |->
            Arr([r \in 1..Len(ws[k]) |-> JsRow(ws[k][r])])])

\* the scaler the windows are scaled with, in units of 1/FP: every feature
\* from 0 over a range of 2
FeatScaler ==
    [min |-> [j \in 1..NumFeatures |-> 0],
     scale |-> [j \in 1..NumFeatures |-> 2 * FP]]

\* win.map(row => _scaleRow(row)) over some windows: the scaled windows and
\* the windows given as they stand afterwards
ScaleWindowsCall(ws, params) ==
    LET calls == Arr([k \in 1..Len(ws) |->
                        Arr([r \in 1..Len(ws[k]) |->
                                ScaleRowCall(ws[k][r], params)])])
    IN  [scaled |-> Arr([k \in 1..Len(ws) |->
                           Arr([r \in 1..Len(ws[k]) |-> calls[k][r].scaled])]),
         windows |-> Arr([k \in 1..Len(ws) |->
                            Arr([r \in 1..Len(ws[k]) |-> calls[k][r].row])])]

\* the first batch of calibrate(windows): chunk and scaled of lines 446-447
CalibrateScale ==
    /\ built
    /\ inferred = "none"
    /\ Len(windows) > 0
    /\ inferred' = "calibrate"
    /\ LET chunk == Slice(windows, 0, Min(0 + BatchSize, Len(windows)))
           call == ScaleWindowsCall(JsWindows(chunk), FeatScaler)
       IN  /\ passed' = call.windows
           /\ scaled' = call.scaled
    /\ UNCHANGED <<rawData, windowSize, features, filled, windows, built>>

\* score(windows[last]): scaled of line 500
ScoreScale ==
    /\ built
    /\ inferred = "none"
    /\ Len(windows) > 0
    /\ inferred' = "score"
    /\ LET call == ScaleWindowsCall(JsWindows(<<windows[Len(windows)]>>),
                                    FeatScaler)
       IN  /\ passed' = call.windows
           /\ scaled' = call.scaled
    /\ UNCHANGED <<rawData, windowSize, features, filled, windows, built>>

----------------------------------------------------------------------------
(* The application (app.js): every analysis tab loads its bars and then  *)
(* runs calibrateVAE against the one VAE module of the page.              *)

VARIABLES
    tabs,           \* analysisTabs: per tab, where its refreshTabData stands
    sharedTab,      \* one tab refreshed by several refreshTabData calls
    runs,           \* those calls: where each stands
    simTabOpen,     \* whether the tab of the simulator is in analysisTabs
    simData,        \* tab.data.length of that tab
    sim,            \* tab.simulatorState
    intervals,      \* the interval timers of the page that are active
    pushed,         \* the trade the last step pushed onto sim.trades
    tabCounter,     \* the number of tabs created so far
    openTabs,       \* the keys of analysisTabs, in insertion order
    activeTabId,
    autoRefreshEnabled,
    autoRefreshInterval,
    autoRefreshTimer,   \* the handle of the refresh timeout
    countdownTimer,     \* the handle of the countdown interval
    timeouts,       \* the timeouts of the page that are pending
    countdowns,     \* the countdown intervals of the page that are active
    lastRefreshed   \* the tab the last step called refreshTabData on

runVars == <<sharedTab, runs>>

simVars == <<simTabOpen, simData, sim, intervals, pushed>>

autoVars == <<tabCounter, openTabs, activeTabId, autoRefreshEnabled,
              autoRefreshInterval, autoRefreshTimer, countdownTimer,
              timeouts, countdowns, lastRefreshed>>

pageVars == <<runVars, simVars, autoVars>>

appVars == <<tabs, pageVars>>

\* the numbers of bars a fetch can deliver: around the minimum the
\* application accepts, and one series long enough for calibrate to yield
AppDataLengths ==
    ((DefaultWindow - 1)..(DefaultWindow - 1 + MaxTabWindows))
        \cup {DefaultWindow - 1 + YieldEvery * BatchSize}

FetchResults == {Null} \cup {Some(n) : n \in AppDataLengths}

\* tab.data.length < 20 is refused
MinBars == 20

TabIdle ==
    [pc |-> "idle", n |-> 0, calib |-> Null, scoreRes |-> Null,
     vaeResult |-> Null]

\* the fields of a tab that refreshTabData writes after the fetch; the
\* prediction carries the VAE result it was computed with and the call
\* that computed it
SharedTabIdle == [vaeResult |-> Null, prediction |-> Null]

\* a refreshTabData call: own says that VAE.calibrate and VAE.score both
\* completed in this call
RunIdle ==
    [pc |-> "idle", n |-> 0, calib |-> Null, scoreRes |-> Null, own |-> FALSE]

RunsIdle ==
    /\ sharedTab = SharedTabIdle
    /\ runs = [c \in Callers |-> RunIdle]

\* simulatorState as addNewAnalysis creates it (app.js:620-631); trades is
\* the length of sim.trades
SimCreated ==
    [isPlaying |-> FALSE, isPaused |-> FALSE, currentIndex |-> 0,
     position |-> Null, trades |-> 0, playInterval |-> Null,
     isComplete |-> FALSE]

SimIdle ==
    /\ simTabOpen = FALSE
    /\ simData = 0
    /\ sim = SimCreated
    /\ intervals = <<>>
    /\ pushed = Null

\* the page as the script leaves it (app.js:6, 2160-2164): no tab, and
\* auto-refresh off with an interval of 60 seconds
AutoInit ==
    /\ tabCounter = 0
    /\ openTabs = <<>>
    /\ activeTabId = Null
    /\ autoRefreshEnabled = FALSE
    /\ autoRefreshInterval = 60
    /\ autoRefreshTimer = Null
    /\ countdownTimer = Null
    /\ timeouts = <<>>
    /\ countdowns = <<>>
    /\ lastRefreshed = Null

PageIdle == RunsIdle /\ SimIdle /\ AutoInit

AppIdle ==
    /\ tabs = [c \in Callers |-> TabIdle]
    /\ PageIdle

\* the promise of a VAE call that settled in this step resolves the await
\* of the tab that made the call
Deliver(tb) ==
    [c \in Callers |->
        IF ret'.caller = c /\ ret'.op = "calibrate"
        THEN [tb[c] EXCEPT !.calib = Some(ret')]
        ELSE IF ret'.caller = c /\ ret'.op = "score"
        THEN [tb[c] EXCEPT !.scoreRes = Some(ret')]
        ELSE tb[c]]

\* VAE.buildWindows(tab.data).length
TabWindowCount(bars) == Max(0, bars - DefaultWindow + 1)

\* refreshTabData(tabId) up to its await of fetchStockData; addNewAnalysis,
\* retryTab, the refresh button and the auto-refresh timer all call it
RefreshTabData(c) ==
    /\ tabs[c].pc = "idle"
    /\ tabs' = [tabs EXCEPT ![c].pc = "fetch"]
    /\ ret' = NoRet
    /\ UNCHANGED <<ready, model, scalerParams, vaeConfig, artifact, threshold,
                   backend, loadPc, cal, sc>>

\* fetchStockData settles; the length test; calculateIndicators; then
\* calibrateVAE up to its await of VAE.calibrate
FetchDone(c, res) ==
    /\ tabs[c].pc = "fetch"
    /\ IF res = Null \/ Val(res) < MinBars
       THEN /\ tabs' = [tabs EXCEPT ![c].pc = "idle"]
            /\ ret' = NoRet
            /\ UNCHANGED <<ready, model, scalerParams, vaeConfig, artifact,
                           threshold, backend, loadPc, cal, sc>>
       ELSE IF ~ready
       THEN /\ tabs' = [tabs EXCEPT ![c] = TabIdle]
            /\ ret' = NoRet
            /\ UNCHANGED <<ready, model, scalerParams, vaeConfig, artifact,
                           threshold, backend, loadPc, cal, sc>>
       ELSE /\ CalibrateCall(c, TabWindowCount(Val(res)))
            /\ tabs' = Deliver([tabs EXCEPT ![c] =
                                  [TabIdle EXCEPT !.pc = "calibrate",
                                                  !.n = TabWindowCount(Val(res))]])

\* calibrateVAE after VAE.calibrate settled: the catch block, or the call
\* of VAE.score on the last window
AfterCalibrate(c) ==
    /\ tabs[c].pc = "calibrate"
    /\ tabs[c].calib # Null
    /\ IF Val(tabs[c].calib).kind = "throw"
       THEN /\ tabs' = [tabs EXCEPT ![c].pc = "idle", ![c].vaeResult = Null]
            /\ ret' = NoRet
            /\ UNCHANGED <<ready, model, scalerParams, vaeConfig, artifact,
                           threshold, backend, loadPc, cal, sc>>
       ELSE /\ ScoreCall(c, tabs[c].n - 1)
            /\ tabs' = Deliver([tabs EXCEPT ![c].pc = "score"])

\* calibrateVAE after VAE.score settled: tab.vaeResult, then the rest of
\* refreshTabData
AfterScore(c) ==
    /\ tabs[c].pc = "score"
    /\ tabs[c].scoreRes # Null
    /\ LET s == Val(tabs[c].scoreRes)
           k == Val(tabs[c].calib)
       IN  tabs' = [tabs EXCEPT
                ![c].pc = "idle",
                ![c].vaeResult =
                    IF s.kind = "throw"
                    THEN Null
                    ELSE Some([reconError |-> s.val.reconError,
                               confidence |-> s.val.confidence,
                               isAnomaly |-> s.val.isAnomaly,
                               threshold |-> s.val.threshold,
                               windowCount |-> k.val.windowCount,
                               isReliable |-> k.val.isReliable])]
    /\ ret' = NoRet
    /\ UNCHANGED <<ready, model, scalerParams, vaeConfig, artifact, threshold,
                   backend, loadPc, cal, sc>>

----------------------------------------------------------------------------
(* refreshTabData and calibrateVAE step by step on one tab  (app.js:707-   *)
(* 770).  Every await is a point where other continuations run: the fetch, *)
(* the two VAE calls inside calibrateVAE, and the await of calibrateVAE    *)
(* itself, whose continuation (predictDirection and the history entry)     *)
(* runs in a later microtask than the return of calibrateVAE.  The calls   *)
(* may target the same tab: addNewAnalysis awaits the first refresh of a   *)
(* tab it has already made active, and the auto-refresh timer refreshes    *)
(* the active tab without awaiting (app.js:2190).                          *)
(* The fetch, the model and the timers settle in tasks of their own; a     *)
(* continuation queued as a microtask runs before the next task, so while  *)
(* a call stands between the return of calibrateVAE and its continuation   *)
(* no other call moves.                                                    *)

\* the bars a fetch of the shared tab delivers: none, too few, enough
RunFetchResults == {Null, Some(MinBars - 1), Some(MinBars), Some(MinBars + 1)}

\* the await of a VAE call of a run is resolved by the call that settled
DeliverRun(rn) ==
    [c \in Callers |->
        IF ret'.caller = c /\ ret'.op = "calibrate"
        THEN [rn[c] EXCEPT !.calib = Some(ret')]
        ELSE IF ret'.caller = c /\ ret'.op = "score"
        THEN [rn[c] EXCEPT !.scoreRes = Some(ret')]
        ELSE rn[c]]

\* no continuation of a returned calibrateVAE is waiting in the microtask
\* queue
NoMicrotaskPending == \A c \in Callers : runs[c].pc # "resume"

\* refreshTabData(tabId) up to its await of fetchStockData
RunStart(c) ==
    /\ runs[c].pc = "idle"
    /\ runs' = [runs EXCEPT ![c] = [RunIdle EXCEPT !.pc = "fetch"]]
    /\ ret' = NoRet
    /\ UNCHANGED <<sharedTab, ready, model, scalerParams, vaeConfig, artifact,
                   threshold, backend, loadPc, cal, sc>>

\* the fetch settles: a failed fetch or too few bars end the refresh in its
\* catch block; otherwise calibrateVAE starts: tab.vaeResult = null, then
\* the return when the VAE is not ready, or the call of VAE.calibrate
RunFetchDone(c, res) ==
    /\ runs[c].pc = "fetch"
    /\ IF res = Null \/ Val(res) < MinBars
       THEN /\ runs' = [runs EXCEPT ![c] = RunIdle]
            /\ ret' = NoRet
            /\ UNCHANGED <<sharedTab, ready, model, scalerParams, vaeConfig,
                           artifact, threshold, backend, loadPc, cal, sc>>
       ELSE /\ sharedTab' = [sharedTab EXCEPT !.vaeResult = Null]
            /\ IF ~ready
               THEN /\ runs' = [runs EXCEPT ![c].pc = "resume"]
                    /\ ret' = NoRet
                    /\ UNCHANGED <<ready, model, scalerParams, vaeConfig,
                                   artifact, threshold, backend, loadPc, cal, sc>>
               ELSE /\ CalibrateCall(c, TabWindowCount(Val(res)))
                    /\ runs' = DeliverRun([runs EXCEPT
                                  ![c].pc = "calibrate",
                                  ![c].n = TabWindowCount(Val(res))])

\* VAE.calibrate settled: the catch block of calibrateVAE, or VAE.score
RunAfterCalibrate(c) ==
    /\ runs[c].pc = "calibrate"
    /\ runs[c].calib # Null
    /\ IF Val(runs[c].calib).kind = "throw"
       THEN /\ sharedTab' = [sharedTab EXCEPT !.vaeResult = Null]
            /\ runs' = [runs EXCEPT ![c].pc = "resume"]
            /\ ret' = NoRet
            /\ UNCHANGED <<ready, model, scalerParams, vaeConfig, artifact,
                           threshold, backend, loadPc, cal, sc>>
       ELSE /\ ScoreCall(c, runs[c].n - 1)
            /\ runs' = DeliverRun([runs EXCEPT ![c].pc = "score"])
            /\ UNCHANGED sharedTab

\* the catch block keeping what tab.vaeResult holds
RunAfterScoreCatchKeeps(c) ==
    /\ runs[c].pc = "score"
    /\ runs[c].scoreRes # Null
    /\ LET s == Val(runs[c].scoreRes)
           k == Val(runs[c].calib)
       IN  IF s.kind = "throw"
           THEN /\ UNCHANGED sharedTab
                /\ runs' = [runs EXCEPT ![c].pc = "resume"]
           ELSE /\ sharedTab' = [sharedTab EXCEPT !.vaeResult =
                        Some([reconError |-> s.val.reconError,
                              confidence |-> s.val.confidence,
                              isAnomaly |-> s.val.isAnomaly,
                              threshold |-> s.val.threshold,
                              windowCount |-> k.val.windowCount,
                              isReliable |-> k.val.isReliable])]
                /\ runs' = [runs EXCEPT ![c].pc = "resume", ![c].own = TRUE]
    /\ ret' = NoRet
    /\ UNCHANGED <<ready, model, scalerParams, vaeConfig, artifact, threshold,
                   backend, loadPc, cal, sc>>

\* VAE.score settled: tab.vaeResult is set from the two results, or reset
\* in the catch block; calibrateVAE returns
RunAfterScore(c) ==
    /\ runs[c].pc = "score"
    /\ runs[c].scoreRes # Null
    /\ LET s == Val(runs[c].scoreRes)
           k == Val(runs[c].calib)
       IN  IF s.kind = "throw"
           THEN /\ sharedTab' = [sharedTab EXCEPT !.vaeResult = Null]
                /\ runs' = [runs EXCEPT ![c].pc = "resume"]
           ELSE /\ sharedTab' = [sharedTab EXCEPT !.vaeResult =
                        Some([reconError |-> s.val.reconError,
                              confidence |-> s.val.confidence,
                              isAnomaly |-> s.val.isAnomaly,
                              threshold |-> s.val.threshold,
                              windowCount |-> k.val.windowCount,
                              isReliable |-> k.val.isReliable])]
                /\ runs' = [runs EXCEPT ![c].pc = "resume", ![c].own = TRUE]
    /\ ret' = NoRet
    /\ UNCHANGED <<ready, model, scalerParams, vaeConfig, artifact, threshold,
                   backend, loadPc, cal, sc>>

\* refreshTabData after its await of calibrateVAE: the prediction from
\* tab.vaeResult as it stands now, recorded in the tab and its history
RunResume(c) ==
    /\ runs[c].pc = "resume"
    /\ sharedTab' = [sharedTab EXCEPT
            !.prediction = Some([by |-> c, vaeResult |-> sharedTab.vaeResult,
                                 own |-> runs[c].own])]
    /\ runs' = [runs EXCEPT ![c] = RunIdle]
    /\ ret' = NoRet
    /\ UNCHANGED <<ready, model, scalerParams, vaeConfig, artifact, threshold,
                   backend, loadPc, cal, sc>>

----------------------------------------------------------------------------
(* The trade simulator of one tab  (app.js:1622-1673, 1757-1931) with      *)
(* closeTab (677-704) and the assignment of tab.data by refreshTabData     *)
(* (737).  The simulator panel exists once the tab has data, so the tab    *)
(* starts with an accepted number of bars.  An interval timer is the       *)
(* dataLength its callback captured; a handle is the timer it names.       *)

MaxSimExtra == 2
MaxTrades == 2

\* startIndex of app.js:625
StartIndex == 20

\* the numbers of bars tab.data can hold
SimDataLengths == MinBars..(MinBars + MaxSimExtra)

\* clearInterval(handle): the timer the handle names stops; a handle of a
\* timer that is no longer active, and null, stop nothing
RECURSIVE ClearInterval(_, _)
ClearInterval(ivs, handle) ==
    IF ivs = <<>> \/ handle = Null THEN ivs
    ELSE IF Head(ivs) = Val(handle) THEN Tail(ivs)
    ELSE <<Head(ivs)>> \o ClearInterval(Tail(ivs), handle)

\* closeSimPosition(tabId) on simulator state s: the state afterwards and
\* the trade pushed.  tab.data[currentIndex] undefined raises a TypeError
\* at the first read of currentCandle.close, before any write.
CloseSimPositionOn(s) ==
    IF ~simTabOpen \/ s.position = Null
    THEN [sim |-> s, pushed |-> Null]
    ELSE IF s.currentIndex >= simData
    THEN [sim |-> s, pushed |-> Null]
    ELSE [sim |-> [s EXCEPT !.trades = s.trades + 1, !.position = Null],
          pushed |-> Some([type |-> Val(s.position).type,
                           entryIndex |-> Val(s.position).entryIndex,
                           exitIndex |-> s.currentIndex])]

\* startSimPlayback(tabId) on simulator state s
StartSimPlaybackOn(s, ivs) ==
    IF ~simTabOpen
    THEN [sim |-> s, intervals |-> ivs]
    ELSE [sim |-> [s EXCEPT !.playInterval = Some([len |-> simData])],
          intervals |-> Append(ivs, [len |-> simData])]

\* toggleSimPlayback(tabId)
ToggleSimPlayback ==
    /\ pushed' = Null
    /\ UNCHANGED <<simTabOpen, simData>>
    /\ IF ~simTabOpen \/ sim.isComplete
       THEN UNCHANGED <<sim, intervals>>
       ELSE IF sim.isPlaying /\ ~sim.isPaused
       THEN /\ sim' = [sim EXCEPT !.isPaused = TRUE, !.playInterval = Null]
            /\ intervals' = ClearInterval(intervals, sim.playInterval)
       ELSE LET st == StartSimPlaybackOn(
                        [sim EXCEPT !.isPlaying = TRUE, !.isPaused = FALSE],
                        intervals)
            IN  /\ sim' = st.sim
                /\ intervals' = st.intervals

\* the callback of interval timer k
SimTick(k) ==
    /\ k \in 1..Len(intervals)
    /\ UNCHANGED <<simTabOpen, simData>>
    /\ IF sim.currentIndex < intervals[k].len - 1
       THEN /\ sim' = [sim EXCEPT !.currentIndex = sim.currentIndex + 1]
            /\ pushed' = Null
            /\ UNCHANGED intervals
       ELSE LET done == [sim EXCEPT !.playInterval = Null, !.isComplete = TRUE]
                closed == CloseSimPositionOn(done)
            IN  /\ intervals' = ClearInterval(intervals, sim.playInterval)
                /\ sim' = closed.sim
                /\ pushed' = closed.pushed

\* a click on BUY or SELL: the buttons are disabled unless the simulation
\* is playing and not complete (1509-1515, 1745-1751); openSimPosition
\* returns when the tab is gone or a position is open, and raises before
\* any write when tab.data[currentIndex] is undefined.  sim.trades is kept
\* to MaxTrades entries.
OpenSimPosition(type) ==
    /\ sim.isPlaying /\ ~sim.isComplete
    /\ sim.trades < MaxTrades
    /\ pushed' = Null
    /\ UNCHANGED <<simTabOpen, simData, intervals>>
    /\ IF ~simTabOpen \/ sim.position # Null \/ sim.currentIndex >= simData
       THEN UNCHANGED sim
       ELSE sim' = [sim EXCEPT !.position =
                        Some([type |-> type, entryIndex |-> sim.currentIndex])]

\* closeSimPosition(tabId)
CloseSimPosition ==
    /\ LET closed == CloseSimPositionOn(sim)
       IN  /\ sim' = closed.sim
           /\ pushed' = closed.pushed
    /\ UNCHANGED <<simTabOpen, simData, intervals>>

\* resetSimulation(tabId)
ResetSimulation ==
    /\ pushed' = Null
    /\ UNCHANGED <<simTabOpen, simData>>
    /\ IF ~simTabOpen
       THEN UNCHANGED <<sim, intervals>>
       ELSE /\ intervals' = ClearInterval(intervals, sim.playInterval)
            /\ sim' = [SimCreated EXCEPT !.currentIndex = StartIndex]

\* updateSimSpeed(tabId, speed)
UpdateSimSpeed ==
    /\ pushed' = Null
    /\ UNCHANGED <<simTabOpen, simData>>
    /\ IF simTabOpen /\ sim.isPlaying /\ ~sim.isPaused
       THEN LET st == StartSimPlaybackOn(
                        sim, ClearInterval(intervals, sim.playInterval))
            IN  /\ sim' = st.sim
                /\ intervals' = st.intervals
       ELSE UNCHANGED <<sim, intervals>>

\* closeTab(tabId): delete analysisTabs[tabId]; nothing of the simulator
\* state is touched
CloseTab ==
    /\ simTabOpen
    /\ simTabOpen' = FALSE
    /\ pushed' = Null
    /\ UNCHANGED <<simData, sim, intervals>>

\* refreshTabData: tab.data = await fetchStockData(...)
ReplaceTabData(n) ==
    /\ simTabOpen
    /\ simData' = n
    /\ pushed' = Null
    /\ UNCHANGED <<simTabOpen, sim, intervals>>

SimInit ==
    /\ simTabOpen = TRUE
    /\ simData \in SimDataLengths
    /\ sim = SimCreated
    /\ intervals = <<>>
    /\ pushed = Null

----------------------------------------------------------------------------
(* Auto-refresh  (app.js:2159-2218) with the tab operations that write     *)
(* activeTabId (596-704).  A timeout is the delay it was set with, a       *)
(* countdown interval the period it was set with; a handle is the timer    *)
(* it names.  clearTimeout and clearInterval stop the timer a handle       *)
(* names and nothing when it is no longer pending.                         *)

MaxTabCounter == 3

\* the values the refreshInterval control offers
RefreshSeconds == {30, 60}

\* stopAutoRefresh(): the timers afterwards
StopAutoRefreshOn(t) ==
    [autoRefreshTimer |-> Null,
     countdownTimer |-> Null,
     timeouts |-> ClearInterval(t.timeouts, t.autoRefreshTimer),
     countdowns |-> ClearInterval(t.countdowns, t.countdownTimer)]

\* startAutoRefresh() with interval secs: the timers afterwards
StartAutoRefreshOn(t, secs) ==
    LET st == StopAutoRefreshOn(t)
    IN  [autoRefreshTimer |-> Some([delay |-> secs]),
         countdownTimer |-> Some([every |-> 1]),
         timeouts |-> Append(st.timeouts, [delay |-> secs]),
         countdowns |-> Append(st.countdowns, [every |-> 1])]

\* the timers of the page
AutoTimers ==
    [autoRefreshTimer |-> autoRefreshTimer, countdownTimer |-> countdownTimer,
     timeouts |-> timeouts, countdowns |-> countdowns]

SetAutoTimers(t) ==
    /\ autoRefreshTimer' = t.autoRefreshTimer
    /\ countdownTimer' = t.countdownTimer
    /\ timeouts' = t.timeouts
    /\ countdowns' = t.countdowns

\* toggleAutoRefresh()
ToggleAutoRefresh ==
    /\ autoRefreshEnabled' = ~autoRefreshEnabled
    /\ IF ~autoRefreshEnabled
       THEN SetAutoTimers(StartAutoRefreshOn(AutoTimers, autoRefreshInterval))
       ELSE SetAutoTimers(StopAutoRefreshOn(AutoTimers))
    /\ lastRefreshed' = Null
    /\ UNCHANGED <<tabCounter, openTabs, activeTabId, autoRefreshInterval>>

\* the callback of pending timeout k (2188-2193)
AutoRefreshTimeout(k) ==
    /\ k \in 1..Len(timeouts)
    /\ LET fired == [AutoTimers EXCEPT !.timeouts =
                        SubSeq(timeouts, 1, k - 1) \o
                        SubSeq(timeouts, k + 1, Len(timeouts))]
       IN  IF autoRefreshEnabled /\ activeTabId # Null
           THEN /\ lastRefreshed' = activeTabId
                /\ SetAutoTimers(StartAutoRefreshOn(fired, autoRefreshInterval))
           ELSE /\ lastRefreshed' = Null
                /\ SetAutoTimers(fired)
    /\ UNCHANGED <<tabCounter, openTabs, activeTabId, autoRefreshEnabled,
                   autoRefreshInterval>>

\* updateRefreshInterval() with the control at secs
UpdateRefreshInterval(secs) ==
    /\ autoRefreshInterval' = secs
    /\ IF autoRefreshEnabled
       THEN SetAutoTimers(StartAutoRefreshOn(AutoTimers, secs))
       ELSE UNCHANGED <<autoRefreshTimer, countdownTimer, timeouts, countdowns>>
    /\ lastRefreshed' = Null
    /\ UNCHANGED <<tabCounter, openTabs, activeTabId, autoRefreshEnabled>>

\* addNewAnalysis(): a new tab, made the active one, and its first refresh
AddNewAnalysis ==
    /\ tabCounter < MaxTabCounter
    /\ tabCounter' = tabCounter + 1
    /\ openTabs' = Append(openTabs, tabCounter + 1)
    /\ activeTabId' = Some(tabCounter + 1)
    /\ lastRefreshed' = Some(tabCounter + 1)
    /\ UNCHANGED <<autoRefreshEnabled, autoRefreshInterval, autoRefreshTimer,
                   countdownTimer, timeouts, countdowns>>

\* switchToTab(tabId) from a click on the button of an open tab
SwitchToTab(tabId) ==
    /\ \E i \in 1..Len(openTabs) : openTabs[i] = tabId
    /\ activeTabId' = Some(tabId)
    /\ lastRefreshed' = Null
    /\ UNCHANGED <<tabCounter, openTabs, autoRefreshEnabled, autoRefreshInterval,
                   autoRefreshTimer, countdownTimer, timeouts, countdowns>>

\* closeTab(tabId) from a click on the button of an open tab: the first
\* remaining tab becomes the active one, or none
CloseOpenTab(tabId) ==
    /\ \E i \in 1..Len(openTabs) : openTabs[i] = tabId
    /\ LET remainingTabs == SelectSeq(openTabs, LAMBDA t : t # tabId)
       IN  /\ openTabs' = remainingTabs
           /\ activeTabId' = IF Len(remainingTabs) > 0
                             THEN Some(remainingTabs[1]) ELSE Null
    /\ lastRefreshed' = Null
    /\ UNCHANGED <<tabCounter, autoRefreshEnabled, autoRefreshInterval,
                   autoRefreshTimer, countdownTimer, timeouts, countdowns>>

----------------------------------------------------------------------------
(* _computeBatchErrors  (vae.js:303-360).                                  *)
(*                                                                         *)
(* A tensor is its shape and its flat data; a cell of the data is Null     *)
(* (NaN) or Some(integer).  The input cells are scaled values, 0 or 1.     *)
(* The errors are fixed-point numbers with FP units to 1.  Math.exp is     *)
(* tabulated, rounded down, over the log-variances of the input family,    *)
(* which stay below the upper clamp.                                       *)

DefaultLatent == 8
LogVarMin == -10
LogVarMax == 50

Tensor(shape, data) == [shape |-> shape, data |-> data]

RECURSIVE Prod(_)
\* the number of cells of a shape
Prod(shape) ==
    IF shape = <<>> THEN 1 ELSE Head(shape) * Prod(Tail(shape))

\* flat[idx] || 0 with idx from 0: an absent cell and a NaN cell read 0
OrZero(flat, idx) ==
    IF idx + 1 \in DOMAIN flat /\ flat[idx + 1] # Null
    THEN Val(flat[idx + 1])
    ELSE 0

\* every sample read from the first row of the data
SampleCellFirstRow(flat, b, stride, d) == OrZero(flat, d)

\* flat[b * stride + d] || 0
SampleCell(flat, b, stride, d) == OrZero(flat, b * stride + d)

\* shape[1] || 8
LatentDimOf(shape) ==
    IF Len(shape) >= 2 /\ shape[2] # 0 THEN shape[2] ELSE DefaultLatent

\* Math.exp(lv) at FP, rounded down
ExpFp(lv) ==
    CASE lv <= -5 -> 0
      [] lv = -4 -> (183 * FP) \div 10000
      [] lv = -3 -> (498 * FP) \div 10000
      [] lv = -2 -> (1353 * FP) \div 10000
      [] lv = -1 -> (3679 * FP) \div 10000
      [] lv = 0 -> FP
      [] lv = 1 -> (27183 * FP) \div 10000
      [] lv = 2 -> (73891 * FP) \div 10000

\* -0.5 * (1 + lv - mu * mu - Math.exp(lv)) at FP, lv clamped to [-10, 50]
KlTerm(muRaw, lvRaw) ==
    LET lv == Max(LogVarMin, Min(LogVarMax, lvRaw))
    IN  (FP * muRaw * muRaw + ExpFp(lv) - FP - FP * lv) \div 2

\* Format A: the normalised KL divergence of each sample
FormatA(output, batchSize) ==
    LET latentDim == LatentDimOf(output[1].shape)
        zMeanFlat == output[1].data
        zLogVarFlat == output[2].data
        kl(b) == SumTo(Arr([d \in 1..latentDim |->
                          KlTerm(SampleCell(zMeanFlat, b, latentDim, d - 1),
                                 SampleCell(zLogVarFlat, b, latentDim, d - 1))]),
                       1, latentDim)
    IN  Arr([b \in 1..batchSize |-> Max(0, kl(b - 1) \div latentDim)])

\* Format B: the mean squared error of each sample against the input
FormatB(inputTensor, outTensor, batchSize) ==
    LET step == inputTensor.shape[2] * inputTensor.shape[3]
        sq(b, j) == LET d == SampleCell(inputTensor.data, b, step, j)
                             - SampleCell(outTensor.data, b, step, j)
                    IN  d * d
        mse(b) == SumTo(Arr([j \in 1..step |-> sq(b, j - 1)]), 1, step)
    IN  Arr([b \in 1..batchSize |-> Max(0, (mse(b - 1) * FP) \div step)])

\* Format C: the L2 norm of each sample
FormatC(outTensor, batchSize) ==
    LET latentDim == LatentDimOf(outTensor.shape)
        sq(b, d) == LET v == SampleCell(outTensor.data, b, latentDim, d)
                    IN  v * v
        l2(b) == SumTo(Arr([d \in 1..latentDim |-> sq(b, d - 1)]), 1, latentDim)
    IN  Arr([b \in 1..batchSize |-> Max(0, Sqrt(l2(b - 1) * FP * FP))])

\* the test of lines 330-334 on the shapes
SameWindowShape(inpShape, outShape) ==
    /\ Len(outShape) = 3
    /\ outShape[2] = inpShape[2]
    /\ outShape[3] = inpShape[3]

\* the branch _computeBatchErrors takes.  output is [isArray, tensors]: a
\* bare tensor is one tensor with isArray FALSE.  An empty array has no
\* element 0 and reading its shape throws.
DetectFormat(inputTensor, output) ==
    IF output.isArray /\ Len(output.tensors) >= 2
    THEN "A"
    ELSE IF output.tensors = <<>>
    THEN "throw"
    ELSE IF SameWindowShape(inputTensor.shape, output.tensors[1].shape)
    THEN "B"
    ELSE "C"

\* _computeBatchErrors(inputTensor, output, batchSize)
ComputeBatchErrors(inputTensor, output, batchSize) ==
    LET format == DetectFormat(inputTensor, output)
    IN  [format |-> format,
         errors |->
            CASE format = "A" -> FormatA(output.tensors, batchSize)
              [] format = "B" -> FormatB(inputTensor, output.tensors[1], batchSize)
              [] format = "C" -> FormatC(output.tensors[1], batchSize)
              [] OTHER -> <<>>]

----------------------------------------------------------------------------
(* predictDirection  (app.js:291-547) under the trading rules of           *)
(* app.js:271-288, which no code changes.  The score is an integer number  *)
(* of 1/ScoreUnit, the base confidence an integer number of 1/ConfUnit     *)
(* percent; the confidence returned is a JavaScript number (before the     *)
(* toFixed of line 541).  Prices, RSI and momentum are integers, the       *)
(* volume ratio is in tenths.                                              *)

ConfUnit == 80
ScoreUnit == 5 * ConfUnit

WeightMovingAverages == 2 * ScoreUnit
WeightRsi == (3 * ScoreUnit) \div 2
WeightMacd == (3 * ScoreUnit) \div 2
WeightBollinger == ScoreUnit
WeightVolume == ScoreUnit \div 2
WeightMomentum == ScoreUnit

RsiOversold == 30
RsiOverbought == 70
RsiNeutral == 50
VolumeHighTenths == 15
MomentumStrong == 2
MinimumVolumeTenths == 5
ConfirmationsNeeded == 3

\* a < b and a > b for JavaScript numbers: false when either is NaN
JsLess(a, b) ==
    CASE a.k = "nan" \/ b.k = "nan" -> FALSE
      [] a.k = "inf" -> a.n < 0 /\ ~(b.k = "inf" /\ b.n < 0)
      [] b.k = "inf" -> b.n > 0
      [] OTHER -> a.n * b.d < b.n * a.d

JsGreater(a, b) == JsLess(b, a)

\* lines 296-326
MovingAverageSignal(ind) ==
    IF ind.currentPrice > ind.sma20 /\ ind.sma20 > ind.sma50 THEN 1
    ELSE IF ind.currentPrice < ind.sma20 /\ ind.sma20 < ind.sma50 THEN -1
    ELSE 0

\* lines 328-365: the change of the score and whether it confirms
RsiScore(ind) ==
    IF ind.rsi < RsiOversold THEN [d |-> WeightRsi, c |-> 1]
    ELSE IF ind.rsi > RsiOverbought THEN [d |-> 0 - WeightRsi, c |-> 1]
    ELSE IF ind.rsi > RsiNeutral THEN [d |-> WeightRsi \div 3, c |-> 0]
    ELSE [d |-> 0 - (WeightRsi \div 3), c |-> 0]

\* lines 368-396
MacdSignal(ind) ==
    IF ind.macd > ind.macdSignal /\ ind.macdHistogram > 0 THEN 1
    ELSE IF ind.macd < ind.macdSignal /\ ind.macdHistogram < 0 THEN -1
    ELSE 0

\* lines 399-427: the position between the bands against the two zones
BollingerSignal(ind) ==
    LET bbPosition == JsQuot(ind.currentPrice - ind.bbLower,
                             ind.bbUpper - ind.bbLower)
    IN  IF JsLess(bbPosition, Fin(1, 5)) THEN 1
        ELSE IF JsGreater(bbPosition, Fin(4, 5)) THEN -1
        ELSE 0

\* lines 430-451: high volume confirms the sign the score has so far
VolumeScore(ind, score) ==
    IF ind.volumeRatio > VolumeHighTenths
    THEN (IF score > 0 THEN WeightVolume ELSE 0 - WeightVolume)
    ELSE 0

\* lines 454-475
MomentumSignal(ind) ==
    IF ind.momentum > MomentumStrong THEN 1
    ELSE IF ind.momentum < 0 - MomentumStrong THEN -1
    ELSE 0

Abs(x) == IF x < 0 THEN 0 - x ELSE x

\* lines 292-496: the score and the confirmations
RuleScore(ind) ==
    LET ma == MovingAverageSignal(ind)
        rsi == RsiScore(ind)
        macd == MacdSignal(ind)
        mom == MomentumSignal(ind)
        s4 == ma * WeightMovingAverages + rsi.d + macd * WeightMacd
                + BollingerSignal(ind) * WeightBollinger
        s5 == s4 + VolumeScore(ind, s4)
        s6 == s5 + mom * WeightMomentum
        confirmations == Abs(ma) + rsi.c + Abs(macd) + Abs(mom)
        s7 == IF ind.volumeRatio < MinimumVolumeTenths
              THEN (s6 * 5) \div 10 ELSE s6
        s8 == IF confirmations < ConfirmationsNeeded
              THEN (s7 * 7) \div 10 ELSE s7
    IN  [score |-> s8, confirmations |-> confirmations]

\* lines 499-517
Direction(score) ==
    IF score >= 3 * ScoreUnit THEN "BULLISH"
    ELSE IF score <= 0 - 3 * ScoreUnit THEN "BEARISH"
    ELSE IF score > 0 THEN "SLIGHTLY BULLISH"
    ELSE IF score < 0 THEN "SLIGHTLY BEARISH"
    ELSE "NEUTRAL"

\* the base confidence, in 1/ConfUnit percent  (absScore * 5 is Abs(score)
\* of these units)
BaseConfidence(score) ==
    IF score >= 3 * ScoreUnit \/ score <= 0 - 3 * ScoreUnit
    THEN Min(95 * ConfUnit, 60 * ConfUnit + Abs(score))
    ELSE IF score # 0 THEN 50 * ConfUnit + Abs(score)
    ELSE 40 * ConfUnit

\* lines 521-523: confidence * vaeResult.confidence
VaeScaled(base, vaeResult) ==
    IF vaeResult = Null
    THEN Fin(base, ConfUnit)
    ELSE LET v == Val(vaeResult).confidence
         IN  CASE v.k = "nan" -> NaN
               [] v.k = "inf" ->
                    (IF base = 0 THEN NaN ELSE IF v.n > 0 THEN PosInf ELSE NegInf)
               [] OTHER -> Fin(base * v.n, ConfUnit * v.d)

\* lines 533-536
ActionOf(direction, confidence) ==
    CASE direction = "BULLISH" ->
            (IF JsGreater(confidence, Fin(70, 1)) THEN "STRONG BUY" ELSE "BUY")
      [] direction = "BEARISH" ->
            (IF JsGreater(confidence, Fin(70, 1)) THEN "STRONG SELL" ELSE "SELL")
      [] OTHER -> "HOLD"

\* predictDirection(indicators, vaeResult); vaeResult Null when omitted
PredictDirection(ind, vaeResult) ==
    LET rs == RuleScore(ind)
        direction == Direction(rs.score)
        confidence == VaeScaled(BaseConfidence(rs.score), vaeResult)
    IN  [direction |-> direction,
         confidence |-> confidence,
         score |-> rs.score,
         confirmations |-> rs.confirmations,
         action |-> ActionOf(direction, confidence)]

----------------------------------------------------------------------------
(* The pure functions applied to a family of inputs: fnName says which     *)
(* function, fnIn is its argument record, fnOut its result once applied.   *)

VARIABLES
    fnName,         \* the function under application
    fnIn,           \* its arguments
    fnOut           \* Null, or Some(result)

unitVars == <<fnName, fnIn, fnOut>>

UnitIdle ==
    /\ fnName = "none"
    /\ fnIn = Null
    /\ fnOut = Null

DataPatterns == {"zero", "nan", "ramp", "wide"}

\* cell i (from 1) of a data pattern
CellAt(p, i) ==
    CASE p = "zero" -> Some(0)
      [] p = "nan" -> Null
      [] p = "ramp" -> Some((i % 4) - 1)
      [] p = "wide" -> (IF i % 3 = 0 THEN Some(-12) ELSE Some(i % 3))

PatternTensor(shape, p) ==
    Tensor(shape, Arr([i \in 1..Prod(shape) |-> CellAt(p, i)]))

\* scaled input cells: 0 or 1
InputTensor(batch, p) ==
    Tensor(<<batch, UnitW, UnitF>>,
           Arr([i \in 1..(batch * UnitW * UnitF) |->
                   IF p = "zero" THEN Some(0) ELSE Some(i % 2)]))

\* the shapes a model output can have for an input of `batch` samples
OutShapes(batch) ==
    {<<batch, UnitW, UnitF>>, <<batch + 1, UnitW, UnitF>>,
     <<batch, UnitW, UnitF + 1>>, <<batch, UnitLatent>>, <<batch, 0>>,
     <<batch>>}

\* the outputs executeAsync can resolve with: a bare tensor, or an array of
\* zero to three tensors
Outputs(batch) ==
    {[isArray |-> FALSE, tensors |-> <<PatternTensor(sh, p)>>] :
        sh \in OutShapes(batch), p \in DataPatterns}
    \cup {[isArray |-> TRUE, tensors |-> <<>>]}
    \cup {[isArray |-> TRUE, tensors |-> <<PatternTensor(sh, p)>>] :
        sh \in OutShapes(batch), p \in DataPatterns}
    \cup {[isArray |-> TRUE,
           tensors |-> <<PatternTensor(sh, p),
                         PatternTensor(<<batch, UnitLatent>>, q)>>] :
        sh \in OutShapes(batch), p \in DataPatterns, q \in DataPatterns}
    \cup {[isArray |-> TRUE,
           tensors |-> <<PatternTensor(sh, p),
                         PatternTensor(<<batch, UnitLatent>>, q),
                         PatternTensor(<<batch, UnitLatent>>, "ramp")>>] :
        sh \in OutShapes(batch), p \in DataPatterns, q \in DataPatterns}

BatchErrorInputs ==
    UNION {{[inputTensor |-> InputTensor(b, ip), output |-> o, batchSize |-> b] :
                ip \in {"zero", "ramp"}, o \in Outputs(b)} :
           b \in 1..MaxBatch}

\* the values of a row cell and of the scaler parameters
RowValues == {JsNull, NaN} \cup {Fin(v, 1) : v \in {-MaxScale, 0, 1, MaxScale + 1}}
ScalerMins == -1..1
ScalerScales == (-MaxScale)..MaxScale

\* rows of UnitF cells: cell i takes every value with every parameter pair,
\* the other cells hold 1 with minimum 0 and scale MaxScale
ScaleRowInputs ==
    {[row |-> [j \in 1..UnitF |-> IF j = i THEN v ELSE Fin(1, 1)],
      params |-> [min |-> [j \in 1..UnitF |-> IF j = i THEN mn ELSE 0],
                  scale |-> [j \in 1..UnitF |-> IF j = i THEN scl ELSE MaxScale]]] :
        i \in 1..UnitF, v \in RowValues, mn \in ScalerMins,
        scl \in ScalerScales}

\* the ScoreResults score() can return: vae.js:505-517 for every reduced
\* error against every calibrated threshold
ScoreResults ==
    {[reconError |-> e, confidence |-> Confidence(e, Some(t)),
      isAnomaly |-> IsAnomaly(e, Some(t)), threshold |-> Some(t)] :
        e \in ErrVals, t \in ErrVals}

\* price against its two averages, and the bands around the price
PriceTrends == {<<30, 20, 10>>, <<10, 20, 30>>, <<20, 20, 20>>}
BandOffsets == {<<1, 9>>, <<9, 1>>, <<5, 5>>, <<0, 0>>}
RsiInputs == {20, 40, 60, 80}
MacdInputs == {<<2, 1, 1>>, <<1, 2, -1>>, <<1, 1, 0>>}
VolumeRatioInputs == {4, 10, 20}
MomentumInputs == {-3, 0, 3}

IndicatorInputs ==
    {[currentPrice |-> pt[1], sma20 |-> pt[2], sma50 |-> pt[3],
      rsi |-> rsi, macd |-> m[1], macdSignal |-> m[2], macdHistogram |-> m[3],
      bbLower |-> pt[1] - bo[1], bbUpper |-> pt[1] + bo[2],
      volumeRatio |-> vr, momentum |-> mo] :
        pt \in PriceTrends, bo \in BandOffsets, rsi \in RsiInputs,
        m \in MacdInputs, vr \in VolumeRatioInputs, mo \in MomentumInputs}

PredictInputs ==
    {[indicators |-> ind, vaeResult |-> v] :
        ind \in IndicatorInputs,
        v \in {Null} \cup {Some(x) : x \in ScoreResults}}

UnitInit ==
    /\ fnOut = Null
    /\ \/ /\ fnName = "computeBatchErrors"
          /\ fnIn \in {Some(x) : x \in BatchErrorInputs}
       \/ /\ fnName = "scaleRow"
          /\ fnIn \in {Some(x) : x \in ScaleRowInputs}
       \/ /\ fnName = "predictDirection"
          /\ fnIn \in {Some(x) : x \in PredictInputs}

\* await _computeBatchErrors(inputTensor, output, batchSize)
ApplyComputeBatchErrors ==
    /\ fnName = "computeBatchErrors"
    /\ fnOut = Null
    /\ fnOut' = Some(ComputeBatchErrors(Val(fnIn).inputTensor, Val(fnIn).output,
                                        Val(fnIn).batchSize))
    /\ UNCHANGED <<fnName, fnIn>>

\* _scaleRow(row)
\* predictDirection(indicators, vaeResult)
ApplyPredictDirection ==
    /\ fnName = "predictDirection"
    /\ fnOut = Null
    /\ fnOut' = Some(PredictDirection(Val(fnIn).indicators, Val(fnIn).vaeResult))
    /\ UNCHANGED <<fnName, fnIn>>

ApplyScaleRow ==
    /\ fnName = "scaleRow"
    /\ fnOut = Null
    /\ fnOut' = Some(ScaleRow(Val(fnIn).row, Val(fnIn).params))
    /\ UNCHANGED <<fnName, fnIn>>

----------------------------------------------------------------------------
(* Spec: the module driven through its public API.  Calls of calibrate and *)
(* score come one at a time (the adapter is single-owner for the duration  *)
(* of a request) and may come at any time, also while load() is running.   *)
(* load() runs from page start and may be called again.  Its continuations *)
(* are scheduled between requests: they write _ready, _model (the same     *)
(* artifact), the companion parameters and the backend, none of which a    *)
(* request in flight reads again except the backend, which SwitchBackend   *)
(* changes at any time.                                                    *)

ApiCallers == {1}

ApiIdle == \A c \in Callers : cal[c].pc = "idle" /\ sc[c].pc = "idle"

Init == VaeInit /\ FeatIdle /\ AppIdle /\ UnitIdle

Load == ApiIdle /\ LoadCall /\ UNCHANGED <<featVars, appVars, unitVars>>
LoadBackend ==
    /\ \E ok \in BOOLEAN : ApiIdle /\ LoadBackendDone(ok)
    /\ UNCHANGED <<featVars, appVars, unitVars>>
LoadModel ==
    /\ \E ok \in BOOLEAN : ApiIdle /\ LoadModelDone(ok)
    /\ UNCHANGED <<featVars, appVars, unitVars>>
LoadFetch ==
    /\ \E res \in FetchOutcomes : ApiIdle /\ LoadFetchDone(res)
    /\ UNCHANGED <<featVars, appVars, unitVars>>
LoadScalerJson ==
    /\ \E ok \in BOOLEAN : ApiIdle /\ LoadScalerJsonDone(ok)
    /\ UNCHANGED <<featVars, appVars, unitVars>>
LoadConfigJson ==
    /\ \E ok \in BOOLEAN : ApiIdle /\ LoadConfigJsonDone(ok)
    /\ UNCHANGED <<featVars, appVars, unitVars>>
Calibrate ==
    /\ \E c \in ApiCallers, n \in WindowCounts : ApiIdle /\ CalibrateCall(c, n)
    /\ UNCHANGED <<featVars, appVars, unitVars>>
CalBackend ==
    /\ \E c \in Callers : CalBackendDone(c)
    /\ UNCHANGED <<featVars, appVars, unitVars>>
CalExec ==
    /\ \E c \in Callers, ok \in BOOLEAN : CalExecDone(c, ok)
    /\ UNCHANGED <<featVars, appVars, unitVars>>
CalData ==
    /\ \E c \in Callers, ok \in BOOLEAN : CalDataDone(c, ok)
    /\ UNCHANGED <<featVars, appVars, unitVars>>
CalYield ==
    /\ \E c \in Callers : CalYieldDone(c)
    /\ UNCHANGED <<featVars, appVars, unitVars>>
Score ==
    /\ \E c \in ApiCallers, w \in ScoreWindows : ApiIdle /\ ScoreCall(c, w)
    /\ UNCHANGED <<featVars, appVars, unitVars>>
ScBackend ==
    /\ \E c \in Callers : ScBackendDone(c)
    /\ UNCHANGED <<featVars, appVars, unitVars>>
ScExec ==
    /\ \E c \in Callers, ok \in BOOLEAN : ScExecDone(c, ok)
    /\ UNCHANGED <<featVars, appVars, unitVars>>
ScData ==
    /\ \E c \in Callers, ok \in BOOLEAN : ScDataDone(c, ok)
    /\ UNCHANGED <<featVars, appVars, unitVars>>
SwitchBackend == BackendSwitch /\ UNCHANGED <<featVars, appVars, unitVars>>

Next ==
    \/ Load \/ LoadBackend \/ LoadModel \/ LoadFetch
    \/ LoadScalerJson \/ LoadConfigJson
    \/ Calibrate \/ CalBackend \/ CalExec \/ CalData \/ CalYield
    \/ Score \/ ScBackend \/ ScExec \/ ScData
    \/ SwitchBackend

vars == <<vaeVars, featVars, appVars, unitVars>>

Spec == Init /\ [][Next]_vars

----------------------------------------------------------------------------
(* SpecFeat: buildWindows applied to every bar sequence of the input       *)
(* family and every window size.                                           *)

VaeIdle ==
    /\ ready = FALSE
    /\ model = Null
    /\ scalerParams = Null
    /\ vaeConfig = Null
    /\ artifact = 0
    /\ threshold = Null
    /\ backend = "cpu"
    /\ loadPc = "idle"
    /\ cal = [c \in Callers |-> CalIdle]
    /\ sc = [c \in Callers |-> ScIdle]
    /\ ret = NoRet

InitFeat == VaeIdle /\ FeatInit /\ AppIdle /\ UnitIdle

BuildWindowsStep == Build /\ UNCHANGED <<vaeVars, appVars, unitVars>>

CalibrateScaleStep == CalibrateScale /\ UNCHANGED <<vaeVars, appVars, unitVars>>

ScoreScaleStep == ScoreScale /\ UNCHANGED <<vaeVars, appVars, unitVars>>

NextFeat == BuildWindowsStep \/ CalibrateScaleStep \/ ScoreScaleStep

SpecFeat == InitFeat /\ [][NextFeat]_vars

----------------------------------------------------------------------------
(* SpecApp: the page.  VAE.load() runs once from page start; the tabs      *)
(* refresh at any time, each tab with one refreshTabData at a time, and    *)
(* nothing orders the refreshes of different tabs.  app.js never touches   *)
(* the TF.js backend, so once load() has selected cpu it stays selected    *)
(* and the backend-reset awaits of calibrate and score are not taken.      *)

InitApp == VaeInit /\ FeatIdle /\ AppIdle /\ UnitIdle

AppLoadBackend ==
    /\ \E ok \in BOOLEAN : LoadBackendDone(ok)
    /\ UNCHANGED <<featVars, appVars, unitVars>>
AppLoadModel ==
    /\ \E ok \in BOOLEAN : LoadModelDone(ok)
    /\ UNCHANGED <<featVars, appVars, unitVars>>
AppLoadFetch ==
    /\ \E res \in FetchOutcomes : LoadFetchDone(res)
    /\ UNCHANGED <<featVars, appVars, unitVars>>
AppLoadScalerJson ==
    /\ \E ok \in BOOLEAN : LoadScalerJsonDone(ok)
    /\ UNCHANGED <<featVars, appVars, unitVars>>
AppLoadConfigJson ==
    /\ \E ok \in BOOLEAN : LoadConfigJsonDone(ok)
    /\ UNCHANGED <<featVars, appVars, unitVars>>
TabRefresh ==
    /\ \E c \in Callers : RefreshTabData(c)
    /\ UNCHANGED <<featVars, unitVars, pageVars>>
TabFetch ==
    /\ \E c \in Callers, res \in FetchResults : FetchDone(c, res)
    /\ UNCHANGED <<featVars, unitVars, pageVars>>
TabAfterCalibrate ==
    /\ \E c \in Callers : AfterCalibrate(c)
    /\ UNCHANGED <<featVars, unitVars, pageVars>>
TabAfterScore ==
    /\ \E c \in Callers : AfterScore(c)
    /\ UNCHANGED <<featVars, unitVars, pageVars>>
AppCalExec ==
    /\ \E c \in Callers, ok \in BOOLEAN : CalExecDone(c, ok)
    /\ tabs' = Deliver(tabs)
    /\ UNCHANGED <<featVars, unitVars, pageVars>>
AppCalData ==
    /\ \E c \in Callers, ok \in BOOLEAN : CalDataDone(c, ok)
    /\ tabs' = Deliver(tabs)
    /\ UNCHANGED <<featVars, unitVars, pageVars>>
AppCalYield ==
    /\ \E c \in Callers : CalYieldDone(c)
    /\ tabs' = Deliver(tabs)
    /\ UNCHANGED <<featVars, unitVars, pageVars>>
AppScExec ==
    /\ \E c \in Callers, ok \in BOOLEAN : ScExecDone(c, ok)
    /\ tabs' = Deliver(tabs)
    /\ UNCHANGED <<featVars, unitVars, pageVars>>
AppScData ==
    /\ \E c \in Callers, ok \in BOOLEAN : ScDataDone(c, ok)
    /\ tabs' = Deliver(tabs)
    /\ UNCHANGED <<featVars, unitVars, pageVars>>

NextApp ==
    \/ AppLoadBackend \/ AppLoadModel \/ AppLoadFetch
    \/ AppLoadScalerJson \/ AppLoadConfigJson
    \/ TabRefresh \/ TabFetch \/ TabAfterCalibrate \/ TabAfterScore
    \/ AppCalExec \/ AppCalData \/ AppCalYield
    \/ AppScExec \/ AppScData

SpecApp == InitApp /\ [][NextApp]_vars

----------------------------------------------------------------------------
(* SpecRefresh: the refreshes of one tab.  VAE.load() runs from page start; *)
(* refreshTabData is called for the tab at any time, also while an earlier *)
(* call for it is awaiting.  As in SpecApp the backend stays cpu.          *)

InitRefresh == VaeInit /\ FeatIdle /\ AppIdle /\ UnitIdle

RefLoadBackend ==
    /\ NoMicrotaskPending
    /\ \E ok \in BOOLEAN : LoadBackendDone(ok)
    /\ UNCHANGED <<featVars, appVars, unitVars>>
RefLoadModel ==
    /\ NoMicrotaskPending
    /\ \E ok \in BOOLEAN : LoadModelDone(ok)
    /\ UNCHANGED <<featVars, appVars, unitVars>>
RefLoadFetch ==
    /\ NoMicrotaskPending
    /\ \E res \in FetchOutcomes : LoadFetchDone(res)
    /\ UNCHANGED <<featVars, appVars, unitVars>>
RefLoadScalerJson ==
    /\ NoMicrotaskPending
    /\ \E ok \in BOOLEAN : LoadScalerJsonDone(ok)
    /\ UNCHANGED <<featVars, appVars, unitVars>>
RefLoadConfigJson ==
    /\ NoMicrotaskPending
    /\ \E ok \in BOOLEAN : LoadConfigJsonDone(ok)
    /\ UNCHANGED <<featVars, appVars, unitVars>>
RefStart ==
    /\ NoMicrotaskPending
    /\ \E c \in Callers : RunStart(c)
    /\ UNCHANGED <<featVars, unitVars, tabs, simVars, autoVars>>
RefFetch ==
    /\ NoMicrotaskPending
    /\ \E c \in Callers, res \in RunFetchResults : RunFetchDone(c, res)
    /\ UNCHANGED <<featVars, unitVars, tabs, simVars, autoVars>>
RefAfterCalibrate ==
    /\ NoMicrotaskPending
    /\ \E c \in Callers : RunAfterCalibrate(c)
    /\ UNCHANGED <<featVars, unitVars, tabs, simVars, autoVars>>
RefAfterScore ==
    /\ NoMicrotaskPending
    /\ \E c \in Callers : RunAfterScore(c)
    /\ UNCHANGED <<featVars, unitVars, tabs, simVars, autoVars>>
RefResume ==
    /\ \E c \in Callers : RunResume(c)
    /\ UNCHANGED <<featVars, unitVars, tabs, simVars, autoVars>>
RefCalExec ==
    /\ NoMicrotaskPending
    /\ \E c \in Callers, ok \in BOOLEAN : CalExecDone(c, ok)
    /\ runs' = DeliverRun(runs)
    /\ UNCHANGED <<featVars, unitVars, tabs, simVars, autoVars, sharedTab>>
RefCalData ==
    /\ NoMicrotaskPending
    /\ \E c \in Callers, ok \in BOOLEAN : CalDataDone(c, ok)
    /\ runs' = DeliverRun(runs)
    /\ UNCHANGED <<featVars, unitVars, tabs, simVars, autoVars, sharedTab>>
RefScExec ==
    /\ NoMicrotaskPending
    /\ \E c \in Callers, ok \in BOOLEAN : ScExecDone(c, ok)
    /\ runs' = DeliverRun(runs)
    /\ UNCHANGED <<featVars, unitVars, tabs, simVars, autoVars, sharedTab>>
RefScData ==
    /\ NoMicrotaskPending
    /\ \E c \in Callers, ok \in BOOLEAN : ScDataDone(c, ok)
    /\ runs' = DeliverRun(runs)
    /\ UNCHANGED <<featVars, unitVars, tabs, simVars, autoVars, sharedTab>>

\* every step but the continuation starts from a task of the event loop
NextRefresh ==
    \/ RefLoadBackend \/ RefLoadModel \/ RefLoadFetch
    \/ RefLoadScalerJson \/ RefLoadConfigJson
    \/ RefStart \/ RefFetch \/ RefAfterCalibrate \/ RefAfterScore \/ RefResume
    \/ RefCalExec \/ RefCalData \/ RefScExec \/ RefScData

SpecRefresh == InitRefresh /\ [][NextRefresh]_vars

----------------------------------------------------------------------------
(* SpecSim: the simulator of one tab under the clicks of the user, the     *)
(* callbacks of its timers, the refreshes of the tab and closeTab.         *)

InitSim ==
    /\ VaeIdle /\ FeatIdle /\ UnitIdle
    /\ tabs = [c \in Callers |-> TabIdle]
    /\ RunsIdle /\ AutoInit
    /\ SimInit

SimToggle ==
    ToggleSimPlayback /\ UNCHANGED <<vaeVars, featVars, unitVars, tabs, runVars, autoVars>>
SimTimer ==
    /\ \E k \in 1..Len(intervals) : SimTick(k)
    /\ UNCHANGED <<vaeVars, featVars, unitVars, tabs, runVars, autoVars>>
SimOpen ==
    /\ \E type \in {"BUY", "SELL"} : OpenSimPosition(type)
    /\ UNCHANGED <<vaeVars, featVars, unitVars, tabs, runVars, autoVars>>
SimClose ==
    CloseSimPosition /\ UNCHANGED <<vaeVars, featVars, unitVars, tabs, runVars, autoVars>>
SimReset ==
    ResetSimulation /\ UNCHANGED <<vaeVars, featVars, unitVars, tabs, runVars, autoVars>>
SimSpeed ==
    UpdateSimSpeed /\ UNCHANGED <<vaeVars, featVars, unitVars, tabs, runVars, autoVars>>
SimCloseTab ==
    CloseTab /\ UNCHANGED <<vaeVars, featVars, unitVars, tabs, runVars, autoVars>>
SimRefresh ==
    /\ \E n \in SimDataLengths : ReplaceTabData(n)
    /\ UNCHANGED <<vaeVars, featVars, unitVars, tabs, runVars, autoVars>>

NextSim ==
    \/ SimToggle \/ SimTimer \/ SimOpen \/ SimClose
    \/ SimReset \/ SimSpeed \/ SimCloseTab \/ SimRefresh

SpecSim == InitSim /\ [][NextSim]_vars

----------------------------------------------------------------------------
(* SpecAuto: auto-refresh under the clicks of the user, the tabs opened    *)
(* and closed, and the callbacks of the refresh timeouts.                  *)

InitAuto ==
    /\ VaeIdle /\ FeatIdle /\ UnitIdle
    /\ tabs = [c \in Callers |-> TabIdle]
    /\ RunsIdle /\ SimIdle
    /\ AutoInit

AutoToggle ==
    ToggleAutoRefresh
        /\ UNCHANGED <<vaeVars, featVars, unitVars, tabs, runVars, simVars>>
AutoTimeout ==
    /\ \E k \in 1..Len(timeouts) : AutoRefreshTimeout(k)
    /\ UNCHANGED <<vaeVars, featVars, unitVars, tabs, runVars, simVars>>
AutoInterval ==
    /\ \E secs \in RefreshSeconds : UpdateRefreshInterval(secs)
    /\ UNCHANGED <<vaeVars, featVars, unitVars, tabs, runVars, simVars>>
AutoAddTab ==
    AddNewAnalysis
        /\ UNCHANGED <<vaeVars, featVars, unitVars, tabs, runVars, simVars>>
AutoSwitchTab ==
    /\ \E t \in 1..MaxTabCounter : SwitchToTab(t)
    /\ UNCHANGED <<vaeVars, featVars, unitVars, tabs, runVars, simVars>>
AutoCloseTab ==
    /\ \E t \in 1..MaxTabCounter : CloseOpenTab(t)
    /\ UNCHANGED <<vaeVars, featVars, unitVars, tabs, runVars, simVars>>

NextAuto ==
    \/ AutoToggle \/ AutoTimeout \/ AutoInterval
    \/ AutoAddTab \/ AutoSwitchTab \/ AutoCloseTab

SpecAuto == InitAuto /\ [][NextAuto]_vars

----------------------------------------------------------------------------
(* SpecUnit: the pure functions of the module, each applied once to every  *)
(* input of its family.                                                    *)

InitUnit == VaeIdle /\ FeatIdle /\ AppIdle /\ UnitInit

ComputeBatchErrorsStep ==
    ApplyComputeBatchErrors /\ UNCHANGED <<vaeVars, featVars, appVars>>

ScaleRowStep ==
    ApplyScaleRow /\ UNCHANGED <<vaeVars, featVars, appVars>>

PredictDirectionStep ==
    ApplyPredictDirection /\ UNCHANGED <<vaeVars, featVars, appVars>>

NextUnit == ComputeBatchErrorsStep \/ ScaleRowStep \/ PredictDirectionStep

SpecUnit == InitUnit /\ [][NextUnit]_vars

----------------------------------------------------------------------------
(* Steps in which caller c invokes score() or calibrate(): the call either *)
(* ends at once (ret' names it) or is suspended at an await.               *)

ScoreInvoked(c) ==
    /\ sc[c].pc = "idle"
    /\ sc'[c].pc # "idle" \/ (ret'.op = "score" /\ ret'.caller = c)

CalibrateInvoked(c) ==
    /\ cal[c].pc = "idle"
    /\ cal'[c].pc # "idle" \/ (ret'.op = "calibrate" /\ ret'.caller = c)

ScoreReturned == ret.op = "score" /\ ret.kind = "return"
CalibrateReturned == ret.op = "calibrate" /\ ret.kind = "return"

\* x is a number in [0, 1]
InUnit(x) == x.k = "fin" /\ 0 <= x.n /\ x.n <= x.d

\* the per-window errors of the first n windows, in window order
Population(n) == [i \in 1..n |-> ModelErr(artifact, i - 1)]

----------------------------------------------------------------------------
(* Claims *)

\* C1: on a ready pipeline, a score() call made while the stored threshold
\* is null throws the precondition error at once: nothing is returned,
\* nothing is left in flight and no inference was made; and no ScoreResult
\* ever carries a null threshold.
C1_ScoreRequiresThreshold ==
    /\ [][\A c \in Callers :
            (ScoreInvoked(c) /\ ready /\ model # Null /\ threshold = Null)
            => /\ ret'.op = "score" /\ ret'.kind = "throw"
               /\ ret'.err = "NotCalibrated"
               /\ ret'.infer = 0
               /\ sc'[c].pc = "idle"]_vars
    /\ [](ScoreReturned => ret.val.threshold # Null /\ ret.infer = 1)

\* a score() refused for want of a threshold on a ready pipeline
C1_Witness ==
    /\ ret.op = "score" /\ ret.err = "NotCalibrated"
    /\ ready /\ threshold = Null

\* C3 (as claimed): every ScoreResult has a confidence that is a number in
\* [0,1], whatever the calibrated threshold (0 included) and the error.
C3_ConfidenceInUnitInterval ==
    ScoreReturned => InUnit(ret.val.confidence)

\* C4: after calibrate over N >= 1 windows, the threshold stored and
\* returned is the element of rank min(floor(0.95 N), N-1) (from 0) in the
\* ascending order of the N per-window errors: it is one of the errors, at
\* most rank errors are smaller and more than rank are not larger.
C4_ThresholdIsFloorRank ==
    (CalibrateReturned /\ ret.arg >= 1) =>
        LET n == ret.arg
            e == ret.val.errors
            rank == Min((95 * n) \div 100, n - 1)
        IN  /\ e = Population(n)
            /\ threshold # Null
            /\ ret.val.threshold = threshold
            /\ \E i \in 1..n : e[i] = Val(threshold)
            /\ Cardinality({i \in 1..n : e[i] < Val(threshold)}) <= rank
            /\ Cardinality({i \in 1..n : e[i] <= Val(threshold)}) > rank

\* a calibration whose threshold is not the largest error of its population
C4_Witness ==
    /\ CalibrateReturned /\ ret.arg >= 1
    /\ \E i \in 1..ret.arg : ret.val.errors[i] > Val(ret.val.threshold)

\* C5: every CalibrationState has windowCount equal to the number of
\* windows passed in, isReliable iff windowCount >= 200, and a null
\* threshold iff windowCount = 0.
C5_CalibrationState ==
    CalibrateReturned =>
        /\ ret.val.windowCount = ret.arg
        /\ ret.val.isReliable <=> (ret.val.windowCount >= 200)
        /\ (ret.val.threshold = Null) <=> (ret.val.windowCount = 0)

\* a calibration over exactly 200 windows, reported as reliable
C5_Witness ==
    CalibrateReturned /\ ret.arg = 200 /\ ret.val.isReliable

\* C6: while the pipeline is not ready, a calibrate() or score() call
\* throws at once: no result, no inference, nothing left in flight, and the
\* stored threshold is unchanged.
C6_NotReadyCallsFail ==
    [][\A c \in Callers :
        ((ScoreInvoked(c) \/ CalibrateInvoked(c)) /\ ~ready)
        => /\ ret'.op \in {"score", "calibrate"}
           /\ ret'.kind = "throw" /\ ret'.err = "NotReady"
           /\ ret'.infer = 0
           /\ threshold' = threshold
           /\ sc'[c].pc = "idle" /\ cal'[c].pc = "idle"]_vars

\* a call refused on a pipeline that became not ready after a calibration
C6_Witness ==
    /\ ret.op \in {"score", "calibrate"} /\ ret.err = "NotReady"
    /\ ~ready /\ model # Null /\ threshold # Null

\* C7: load() always resolves, never rejects; when it fails at any stage
\* ready is false afterwards, and ready is true only with the model and
\* both companion files loaded.
C7_LoadNeverThrows ==
    /\ ret.op = "load" =>
          /\ ret.kind = "return"
          /\ ready <=> ret.val.ok
    /\ ready => (model # Null /\ scalerParams # Null /\ vaeConfig # Null)

\* a load that failed on the config file after an earlier successful load
C7_Witness ==
    /\ ret.op = "load" /\ ret.kind = "return"
    /\ ret.val.stage = "configJson" /\ vaeConfig # Null /\ ~ready

\* C8: on a ready pipeline calibrate([]) returns
\* {threshold: null, windowCount: 0, isReliable: false} without any model
\* inference; it is not an error.
C8_EmptyCalibration ==
    [][\A c \in Callers :
        (cal[c].pc # "idle" \/ (CalibrateInvoked(c) /\ ready /\ model # Null))
        /\ ret'.op = "calibrate" /\ ret'.caller = c /\ ret'.arg = 0
        => /\ ret'.kind = "return"
           /\ ret'.val.threshold = Null
           /\ ret'.val.windowCount = 0
           /\ ret'.val.isReliable = FALSE
           /\ ret'.infer = 0
           /\ threshold' = Null]_vars

\* calibrate([]) returning its degenerate result, the threshold reset
C8_Witness ==
    CalibrateReturned /\ ret.arg = 0 /\ ret.infer = 0 /\ threshold = Null

\* C2 (as claimed): for every bar sequence and every window size W >= 1
\* with at least W bars, every cell of every window buildWindows returns is
\* non-null.
C2_WindowsNullFree ==
    built =>
        \A k \in 1..Len(windows) :
            \A r \in 1..Len(windows[k]) :
                \A f \in 1..NumFeatures : windows[k][r][f] # Null

\* C10: buildWindows on n bars with window size W (20 when omitted)
\* returns max(0, n-W+1) windows, and window k (from 0) is rows k..k+W-1
\* of the filled matrix in their order; so the last window ends at the
\* last bar and fewer than W bars give an empty sequence.
C10_WindowsAreSlices ==
    built =>
        LET n == Len(rawData)
            w == IF windowSize = 0 THEN 20 ELSE windowSize
        IN  /\ Len(filled) = n
            /\ Len(windows) = Max(0, n - w + 1)
            /\ \A k \in 1..Len(windows) :
                  /\ Len(windows[k]) = w
                  /\ \A r \in 1..w : windows[k][r] = filled[k + r - 1]

\* several windows of the default size whose rows differ
C10_Witness ==
    /\ built /\ windowSize = 0
    /\ Len(windows) >= 2
    /\ windows[1][1] # windows[2][1]
    /\ windows[Len(windows)][20] = filled[Len(rawData)]

\* a tab is inside calibrateVAE: between its call of VAE.calibrate and the
\* settling of its VAE.score
InCalibrateVAE(c) == tabs[c].pc \in {"calibrate", "score"}

\* C9: calibrate/score requests against the shared VAE module never overlap:
\* at no time are two tabs inside calibrateVAE, and the threshold a tab's
\* vaeResult echoes is the one that tab's own calibration returned.
C9_SingleOwner ==
    /\ \A c1, c2 \in Callers :
          c1 # c2 => ~(InCalibrateVAE(c1) /\ InCalibrateVAE(c2))
    /\ \A c \in Callers :
          tabs[c].vaeResult # Null =>
              Val(tabs[c].vaeResult).threshold
                  = Val(tabs[c].calib).val.threshold

\* _computeBatchErrors has been applied and took one of its three branches
BatchErrorsReduced ==
    /\ fnName = "computeBatchErrors"
    /\ fnOut # Null
    /\ Val(fnOut).format \in {"A", "B", "C"}

\* C11 (as claimed): an output of two or more tensors is reduced as Format
\* A; otherwise a tensor whose shape is exactly the input's shape
\* (batch, W, F) is reduced as Format B; otherwise as Format C.
C11_FormatPrecedence ==
    BatchErrorsReduced =>
        LET in == Val(fnIn)
            tensors == in.output.tensors
        IN  Val(fnOut).format =
                IF Len(tensors) >= 2 THEN "A"
                ELSE IF tensors[1].shape = in.inputTensor.shape THEN "B"
                ELSE "C"

\* the cells of sample b (from 0) in data laid out with `stride` cells per
\* sample, NaN and absent cells read as 0
SampleOf(data, b, stride) ==
    Arr([d \in 1..stride |-> OrZero(data, b * stride + d - 1)])

\* the sum of the squares of a sequence of integers
SumSq(cells) ==
    SumTo(Arr([i \in 1..Len(cells) |-> cells[i] * cells[i]]), 1, Len(cells))

\* C12: for each of the three formats, _computeBatchErrors returns exactly
\* batchSize errors, every one >= 0, and the b-th error is the reduction of
\* the b-th sample: the rounded-down root of its sum of squares (C), its
\* rounded-down mean squared difference to the b-th input sample (B), and
\* for the KL divergence (A) zero when the sample's mean and log-variance
\* are all zero and positive when some mean is not zero.
C12_OneErrorPerSample ==
    BatchErrorsReduced =>
        LET in == Val(fnIn)
            errors == Val(fnOut).errors
            format == Val(fnOut).format
            tensors == in.output.tensors
            step == UnitW * UnitF
        IN  /\ Len(errors) = in.batchSize
            /\ \A b \in 1..Len(errors) : errors[b] >= 0
            /\ format = "C" =>
                  \A b \in 1..in.batchSize :
                      LET l2 == SumSq(SampleOf(tensors[1].data, b - 1,
                                               LatentDimOf(tensors[1].shape)))
                      IN  /\ errors[b] * errors[b] <= l2 * FP * FP
                          /\ (errors[b] + 1) * (errors[b] + 1) > l2 * FP * FP
            /\ format = "B" =>
                  \A b \in 1..in.batchSize :
                      LET x == SampleOf(in.inputTensor.data, b - 1, step)
                          y == SampleOf(tensors[1].data, b - 1, step)
                          se == SumSq(Arr([j \in 1..step |-> x[j] - y[j]]))
                      IN  /\ errors[b] * step <= se * FP
                          /\ (errors[b] + 1) * step > se * FP
            /\ format = "A" =>
                  \A b \in 1..in.batchSize :
                      LET ld == LatentDimOf(tensors[1].shape)
                          mu == SampleOf(tensors[1].data, b - 1, ld)
                          lv == SampleOf(tensors[2].data, b - 1, ld)
                      IN  /\ (SumSq(mu) = 0 /\ SumSq(lv) = 0) => errors[b] = 0
                          /\ SumSq(mu) # 0 => errors[b] > 0

\* a batch of two samples reduced by the L2 norm to two different errors
C12_Witness ==
    /\ BatchErrorsReduced
    /\ Val(fnOut).format = "C"
    /\ Val(fnIn).batchSize >= 2
    /\ Val(fnOut).errors[1] # Val(fnOut).errors[2]
    /\ Val(fnOut).errors[1] > 0

\* C13: for every cell value v and parameter pair (min, scale), _scaleRow
\* yields a number in [0,1]; it is 0 when scale is 0 or the quotient is not
\* a number, and otherwise (v - min) / scale clipped to [0,1].
C13_ScaledCellIsClippedQuotient ==
    (fnName = "scaleRow" /\ fnOut # Null) =>
        LET in == Val(fnIn)
            out == Val(fnOut)
        IN  /\ Len(out) = Len(in.row)
            /\ \A i \in 1..Len(out) :
                  LET v == in.row[i]
                      mn == in.params.min[i]
                      scl == in.params.scale[i]
                      r == out[i]
                      \* the quotient as num / den with den > 0
                      num == (IF v.k = "fin" THEN v.n - mn ELSE 0 - mn)
                                 * (IF scl < 0 THEN -1 ELSE 1)
                      den == IF scl < 0 THEN -scl ELSE scl
                  IN  /\ InUnit(r)
                      /\ (scl = 0 \/ v.k = "nan") => r.n = 0
                      /\ (scl # 0 /\ v.k # "nan") =>
                            r.n * den = Max(0, Min(den, num)) * r.d

\* a row with one cell strictly inside (0,1) and one cell above its minimum
\* whose scale is 0
C13_Witness ==
    /\ fnName = "scaleRow" /\ fnOut # Null
    /\ \E i, j \in 1..UnitF :
          /\ 0 < Val(fnOut)[i].n /\ Val(fnOut)[i].n < Val(fnOut)[i].d
          /\ Val(fnIn).params.scale[j] = 0
          /\ Val(fnIn).row[j].k = "fin"
          /\ Val(fnIn).row[j].n > Val(fnIn).params.min[j]

\* ceil(n / BatchSize)
BatchCount(n) == (n + BatchSize - 1) \div BatchSize

\* C14: calibrate on N >= 1 windows issues one inference per batch, in
\* increasing window order and with no retry: the inference in flight is
\* the (start/32 + 1)-th, covers windows start..min(start+31, N-1), and the
\* errors of all the windows before start are accumulated; a calibration
\* that returns has made ceil(N/32) inferences and accumulated the N
\* errors in window order, yields or not.
C14_OneInferencePerBatch ==
    /\ \A c \in Callers :
          LET k == cal[c]
          IN  /\ k.pc \in {"exec", "data"} =>
                    /\ k.start < k.n
                    /\ k.start = BatchSize * (k.infer - 1)
                    /\ Len(k.errors) = k.start
                    /\ Len(k.out) = Min(BatchSize, k.n - k.start)
                    /\ \A i \in 1..Len(k.out) :
                          k.out[i] = ModelErr(artifact, k.start + i - 1)
              /\ k.pc = "yield" =>
                    /\ k.infer = BatchCount(k.start + BatchSize)
                    /\ Len(k.errors) = Min(k.start + BatchSize, k.n)
              /\ k.pc # "idle" =>
                    \A i \in 1..Len(k.errors) :
                        k.errors[i] = ModelErr(artifact, i - 1)
    /\ (CalibrateReturned /\ ret.arg >= 1) =>
          /\ ret.infer = BatchCount(ret.arg)
          /\ Len(ret.val.errors) = ret.arg
          /\ \A i \in 1..ret.arg : ret.val.errors[i] = ModelErr(artifact, i - 1)
    /\ (ret.op = "calibrate" /\ ret.kind = "throw") =>
          ret.infer <= BatchCount(ret.arg)

\* a calibration that went through a cooperative yield and a last batch of
\* one window
C14_Witness ==
    /\ CalibrateReturned
    /\ ret.arg = YieldEvery * BatchSize + 1
    /\ ret.infer = YieldEvery + 1

\* C15: a calibrate call either completes over all its windows or raises.
\* When inference or reduction fails on a batch the call raises, hands no
\* CalibrationState to its caller, leaves nothing in flight and leaves the
\* stored threshold as it was; and while a call is in flight the stored
\* threshold changes only in the step in which that call returns, so after
\* a failure it has the value it had before the call.
C15_FailedCalibrationKeepsThreshold ==
    [][\A c \in Callers :
        /\ (ret'.op = "calibrate" /\ ret'.caller = c /\ ret'.kind = "throw"
            /\ ret'.err \in {"Inference", "Reduction"})
           => /\ cal[c].pc \in {"exec", "data"}
              /\ ret'.val = Null
              /\ threshold' = threshold
              /\ cal'[c].pc = "idle"
        /\ (cal[c].pc # "idle" /\ threshold' # threshold)
           => /\ ret'.op = "calibrate" /\ ret'.caller = c
              /\ ret'.kind = "return"
              /\ ret'.val.windowCount = cal[c].n
              /\ Len(ret'.val.errors) = cal[c].n]_vars

\* a calibration that failed in the reduction of a later batch, the
\* threshold of an earlier calibration still stored
C15_Witness ==
    /\ ret.op = "calibrate" /\ ret.kind = "throw" /\ ret.err = "Reduction"
    /\ ret.infer >= 2
    /\ threshold # Null

\* C16: every ScoreResult has isAnomaly true iff reconError > threshold,
\* strictly, and echoes the threshold returned by the most recent
\* calibrate call that returned: the stored threshold changes only in a
\* step in which calibrate returns, every returning calibrate stores the
\* threshold it returns, and a returning score echoes the stored threshold.
C16_AnomalyIsStrictlyAbove ==
    [][/\ threshold' # threshold
          => (ret'.op = "calibrate" /\ ret'.kind = "return")
       /\ (ret'.op = "calibrate" /\ ret'.kind = "return")
          => threshold' = ret'.val.threshold
       /\ (ret'.op = "score" /\ ret'.kind = "return")
          => /\ threshold' = threshold
             /\ ret'.val.threshold = threshold
             /\ ret'.val.threshold # Null
             /\ ret'.val.isAnomaly
                    <=> (ret'.val.reconError > Val(ret'.val.threshold))]_vars

\* a score whose error equals a positive threshold, not flagged
C16_Witness ==
    /\ ScoreReturned
    /\ ret.val.reconError = Val(ret.val.threshold)
    /\ ret.val.reconError > 0
    /\ ~ret.val.isAnomaly

\* caller c's calibrate() or score() issues an executeAsync in this step
InferenceIssued(c) ==
    \/ cal'[c].pc = "exec" /\ cal'[c].infer # cal[c].infer
    \/ sc'[c].pc = "exec" /\ sc[c].pc # "exec"

\* C17 (as claimed): at the moment of every inference issued by calibrate
\* (each batch) or by score the backend is 'cpu', whenever other code may
\* have switched it after load.
C17_InferenceOnCpu ==
    [][\A c \in Callers : InferenceIssued(c) => backend' = "cpu"]_vars

\* C18: every input and output tensor created for a calibrate batch or a
\* score call is disposed exactly once before the call returns or raises:
\* no call, in flight or ended, has left its try statement with a tensor
\* live or disposed twice; while an inference is awaited exactly its own
\* tensors are live, and between batches and after the call none is.
C18_TensorsDisposedOnce ==
    \A c \in Callers :
        /\ ~cal[c].leak /\ ~sc[c].leak
        /\ \A k \in {cal[c], sc[c]} :
              /\ k.pc = "exec" => (k.inp = "live" /\ k.outT = <<>>)
              /\ k.pc = "data" =>
                    /\ k.inp = "live"
                    /\ Len(k.outT) = NumOutputs
                    /\ \A i \in 1..NumOutputs : k.outT[i] = "live"
              /\ k.pc \in {"idle", "backend", "yield"} =>
                    /\ k.inp # "live"
                    /\ \A i \in DOMAIN k.outT : k.outT[i] # "live"

\* a calibration that raised from the inference of a later batch, after the
\* tensors of an earlier batch had gone through the finally block
C18_Witness ==
    /\ ret.op = "calibrate" /\ ret.kind = "throw" /\ ret.err = "Inference"
    /\ ret.infer >= 2
    /\ ~cal[ret.caller].leak

\* the first index (from 1) at which the raw SMA_Ratio is defined, or one
\* past the last row when it never is
FirstRawSmaRatio ==
    LET defined == {i \in 1..Len(features) : features[i][SmaCol] # Null}
    IN  IF defined = {}
        THEN Len(features) + 1
        ELSE CHOOSE i \in defined : \A j \in defined : i <= j

\* C19: after filling, SMA_Ratio is exactly 1.0 at every index before the
\* first index at which the raw SMA_Ratio is defined (at every row when
\* the series has fewer than 50 bars), and where the raw SMA_Ratio is
\* defined the filled value is the raw value.
C19_SmaRatioLeadingIsOne ==
    built =>
        /\ Len(filled) = Len(features)
        /\ \A i \in 1..Len(filled) :
              /\ i < FirstRawSmaRatio => filled[i][SmaCol] = Some(FP)
              /\ features[i][SmaCol] # Null
                    => filled[i][SmaCol] = features[i][SmaCol]
        /\ Len(rawData) < SmaPeriod => FirstRawSmaRatio = Len(rawData) + 1

\* a series of more than 50 bars whose first real SMA_Ratio is not 1.0:
\* the rows before it hold 1.0, not that ratio
C19_Witness ==
    /\ built
    /\ Len(rawData) > SmaPeriod
    /\ FirstRawSmaRatio = SmaPeriod
    /\ features[SmaPeriod][SmaCol] # Some(FP)
    /\ filled[1][SmaCol] = Some(FP)
    /\ filled[SmaPeriod][SmaCol] = features[SmaPeriod][SmaCol]

JsBetween(x, lo, hi) ==
    /\ x.k = "fin"
    /\ ~JsLess(x, Fin(lo, 1))
    /\ ~JsGreater(x, Fin(hi, 1))

\* C21 (as claimed): predictDirection returns a confidence between 0 and
\* 100 for every input, with or without a VAE result; a VAE result (any
\* ScoreResult score() can return) changes neither the direction nor the
\* score, and the confidence is never above that of the same call without
\* the VAE result.
C21_VaeOnlyLowersConfidence ==
    (fnName = "predictDirection" /\ fnOut # Null) =>
        LET out == Val(fnOut)
            plain == PredictDirection(Val(fnIn).indicators, Null)
        IN  /\ JsBetween(out.confidence, 0, 100)
            /\ out.direction = plain.direction
            /\ out.score = plain.score
            /\ ~JsGreater(out.confidence, plain.confidence)

\* C22 (as claimed): in the raw feature matrix of a series without missing
\* closes, MACD (column 1) and MACD_Hist (column 2) are null at index 0
\* and, when the series is that long, at index 25.
C22_MacdLeadingNull ==
    built =>
        \A i \in {0, EmaSlow - 1} :
            i < Len(features) =>
                /\ features[i + 1][2] = Null
                /\ features[i + 1][3] = Null

\* every close and every volume of the series is positive
AllPositive ==
    \A i \in 1..Len(rawData) : rawData[i].close > 0 /\ rawData[i].volume > 0

\* column col (from 0) of the raw matrix is null exactly at the indices
\* (from 0) below lead
NullExactlyBelow(col, lead) ==
    \A i \in 0..(Len(features) - 1) :
        (features[i + 1][col + 1] = Null) <=> (i < lead)

\* C23: for a series of positive closes and volumes the raw feature matrix
\* has one row of 7 columns per bar, with RSI14 (column 0) null exactly at
\* i < 14, BB_Position (3) and Vol_Ratio (4) exactly at i < 19, Momentum
\* (5) exactly at i < 10 and SMA_Ratio (6) exactly at i < 49.
C23_RawNullPattern ==
    (built /\ AllPositive) =>
        /\ Len(features) = Len(rawData)
        /\ \A i \in 1..Len(features) : Len(features[i]) = NumFeatures
        /\ NullExactlyBelow(0, RsiPeriod)
        /\ NullExactlyBelow(3, BbPeriod - 1)
        /\ NullExactlyBelow(4, VolPeriod - 1)
        /\ NullExactlyBelow(5, MomentumLag)
        /\ NullExactlyBelow(6, SmaPeriod - 1)

\* a positive series long enough for every column to have become defined
C23_Witness ==
    /\ built
    /\ AllPositive
    /\ Len(rawData) > SmaPeriod
    /\ features[SmaPeriod - 1][SmaCol] = Null
    /\ features[SmaPeriod][SmaCol] # Null
    /\ features[RsiPeriod][1] = Null
    /\ features[RsiPeriod + 1][1] # Null

\* cell (i, f) of the raw matrix after the SMA_Ratio rule
AfterSmaRule(i, f) ==
    IF f = SmaCol /\ i < FirstRawSmaRatio THEN Some(FP) ELSE features[i][f]

\* the indices at which column f is non-null after the SMA_Ratio rule
DefinedIn(f) == {i \in 1..Len(features) : AfterSmaRule(i, f) # Null}

\* C24: per column, after the SMA_Ratio rule: a non-null cell keeps its
\* value; a null cell after the column's first non-null value takes the
\* nearest preceding non-null value; a null cell before it takes that
\* first non-null value.  (The state is the one buildWindows returns in.)
C24_ForwardThenBackwardFill ==
    (built /\ inferred = "none") =>
        \A f \in 1..NumFeatures :
            LET defined == DefinedIn(f)
            IN  \A i \in 1..Len(features) :
                    LET before == {j \in defined : j < i}
                        after == {j \in defined : j > i}
                    IN  IF i \in defined
                        THEN filled[i][f] = AfterSmaRule(i, f)
                        ELSE IF before # {}
                        THEN \E j \in before :
                                /\ \A k \in before : k <= j
                                /\ filled[i][f] = AfterSmaRule(j, f)
                        ELSE IF after # {}
                        THEN \E j \in after :
                                /\ \A k \in after : j <= k
                                /\ filled[i][f] = AfterSmaRule(j, f)
                        ELSE TRUE

\* a matrix in which Vol_Ratio (column 4) has nulls before its first value
\* and nulls after a value, and the two fills gave them different values
C24_Witness ==
    /\ built
    /\ Len(features) >= SmaPeriod
    /\ features[1][5] = Null
    /\ features[Len(features)][5] = Null
    /\ DefinedIn(5) # {}
    /\ filled[1][5] # Null
    /\ filled[Len(features)][5] # Null
    /\ filled[1][5] # filled[Len(features)][5]

\* no close up to index i (from 0) is below the close before it: every
\* loss up to i is 0, and so is the Wilder average loss at i
NoLossUpTo(i) ==
    \A j \in 2..(i + 1) : rawData[j].close >= rawData[j - 1].close

\* the 20 closes ending at index i (from 0) are all equal
TrailingFlat(i) ==
    \A j \in (i + 2 - BbPeriod)..(i + 1) : rawData[j].close = rawData[i + 1].close

\* C25: in the raw matrix RSI14 is exactly 100 at every index >= 14 at
\* which the Wilder average loss is 0, and BB_Position is exactly 0.5 at
\* every index >= 19 whose trailing 20 closes are all equal.
C25_ZeroDenominatorSentinels ==
    built =>
        \A i \in 0..(Len(features) - 1) :
            /\ (i >= RsiPeriod /\ NoLossUpTo(i))
                  => features[i + 1][1] = Some(100 * FP)
            /\ (i >= BbPeriod - 1 /\ TrailingFlat(i))
                  => features[i + 1][4] = Some(FP \div 2)

\* a flat series (no gain, no loss, zero band range) past both warm-ups
C25_Witness ==
    /\ built
    /\ Len(rawData) >= BbPeriod
    /\ TrailingFlat(BbPeriod - 1)
    /\ NoLossUpTo(BbPeriod - 1)
    /\ features[BbPeriod][4] = Some(FP \div 2)
    /\ features[BbPeriod][1] = Some(100 * FP)

\* C26: calibrateVAE never makes a refresh fail: a refresh that is inside
\* calibrateVAE does not end without its prediction; when calibrateVAE has
\* returned without both VAE.calibrate and VAE.score completing in that
\* refresh (VAE not ready, or one of them raised), tab.vaeResult is null;
\* and the prediction the refresh records is computed from tab.vaeResult,
\* which is non-null only if both completed in that same refresh.
C26_VaeResultOnlyFromOwnRefresh ==
    /\ [](\A c \in Callers :
            (runs[c].pc = "resume" /\ ~runs[c].own)
                => sharedTab.vaeResult = Null)
    /\ [](sharedTab.prediction # Null =>
            (Val(sharedTab.prediction).vaeResult # Null
                => Val(sharedTab.prediction).own))
    /\ [][\A c \in Callers :
            /\ (runs[c].pc \in {"calibrate", "score"} /\ runs'[c].pc # runs[c].pc)
                  => runs'[c].pc \in {"score", "resume"}
            /\ (runs[c].pc = "resume" /\ runs'[c].pc # "resume")
                  => sharedTab'.prediction =
                        Some([by |-> c, vaeResult |-> sharedTab.vaeResult,
                              own |-> runs[c].own])]_vars

\* a refresh whose VAE call raised stands before its continuation with
\* tab.vaeResult null, on a tab whose last recorded prediction was made
\* with a VAE result, while another refresh of the tab is in flight
C26_Witness ==
    \E c \in Callers :
        /\ runs[c].pc = "resume"
        /\ ~runs[c].own
        /\ \/ runs[c].calib # Null /\ Val(runs[c].calib).kind = "throw"
           \/ runs[c].scoreRes # Null /\ Val(runs[c].scoreRes).kind = "throw"
        /\ sharedTab.vaeResult = Null
        /\ sharedTab.prediction # Null
        /\ Val(sharedTab.prediction).vaeResult # Null
        /\ \E d \in Callers \ {c} : runs[d].pc \in {"calibrate", "score"}

\* C27 (as claimed): sim.currentIndex indexes an existing bar of the tab
\* after any sequence of play, pause, timer tick, speed change and reset,
\* for every accepted data length.
C27_CurrentIndexInRange ==
    simTabOpen => (0 <= sim.currentIndex /\ sim.currentIndex <= simData - 1)

\* a step that opens no position over an open one and closes none that is
\* not open: the position only changes from open to none or from none to open
PositionStepGuarded ==
    (sim.position # Null /\ sim'.position # Null) => sim'.position = sim.position

\* a step that changes the number of trades is a reset, or a close that
\* appends one trade of the open position with exitIndex >= entryIndex and
\* clears the position
TradeStepIsOneClose ==
    sim'.trades # sim.trades =>
        \/ sim'.trades = 0 /\ sim'.position = Null
        \/ /\ sim'.trades = sim.trades + 1
           /\ sim.position # Null
           /\ sim'.position = Null
           /\ pushed' # Null
           /\ Val(pushed').entryIndex = Val(sim.position).entryIndex
           /\ Val(pushed').exitIndex >= Val(pushed').entryIndex

\* C28 (as claimed): at most one position is open; opening over an open
\* position and closing without one change nothing; each close appends
\* exactly one trade with exitIndex >= entryIndex and clears the position;
\* a completed simulation of an open tab has no open position.
C28_OnePositionAutoClosed ==
    /\ [][PositionStepGuarded /\ TradeStepIsOneClose]_vars
    /\ []((simTabOpen /\ sim.isComplete) => sim.position = Null)

\* C29 (as claimed): the simulator has at most one active playback timer,
\* and none once the simulation is paused, completed or reset or the tab
\* is closed.
C29_OneTimerNoneWhenStopped ==
    /\ Len(intervals) <= 1
    /\ (sim.isPaused \/ sim.isComplete \/ ~sim.isPlaying \/ ~simTabOpen)
           => intervals = <<>>

\* C30 (as claimed): while auto-refresh is enabled exactly one refresh
\* timeout is pending; while it is disabled no refresh timeout and no
\* countdown timer is pending.
C30_OneTimeoutWhileEnabled ==
    /\ autoRefreshEnabled => Len(timeouts) = 1
    /\ ~autoRefreshEnabled => (timeouts = <<>> /\ countdowns = <<>>)

====
